---- MODULE Spec2Model ----
(***************************************************************************)
(* Model of the go-metrics registry (metric/registry.go), the validation  *)
(* policy (metric/types.go) and the primitive constructors (metric.go).   *)
(* Time is an integer clock; a time.Duration is an integer number of      *)
(* clock units.  Bucket boundaries are integers in units of 1/1000.       *)
(***************************************************************************)
EXTENDS Integers, Sequences, FiniteSets, TLC

\* ---------------------------------------------------------------- bounds
Threads == {1, 2}
MaxInstances == 3
MaxTime == 2

\* ------------------------------------------------------ program constants
TypeCounter == "counter"
TypeGauge == "gauge"
TypeHistogram == "histogram"
TypeTimer == "timer"
Types == {TypeCounter, TypeGauge, TypeHistogram, TypeTimer}

\* TagValidationConfig of the registry under test
MaxKeys == 2
MaxKeyLength == 10
MaxValueLength == 20
MaxCardinality == 2
DisallowedKeys == {"secret", "password"}

\* the zero time.Time, which lies before every clock reading
ZeroTime == -1

DefaultBuckets == <<1, 10, 100, 1000, 10000, 100000, 1000000, 10000000>>

\* ------------------------------------------------------------ input sets
Names == {"a", "b"}
EmptyTags == [k \in {} |-> ""]
InvalidTagInputs ==
    { [k \in {"very_long_key"} |-> "value"],
      [k \in {"secret"} |-> "x"],
      [k \in {""} |-> "x"],
      [k \in {"k"} |-> "vvvvvvvvvvvvvvvvvvvvv"],
      [k \in {"k1", "k2", "k3"} |-> "v"] }
FewTagInputs == {EmptyTags, [k \in {"very_long_key"} |-> "value"]}
BucketInputs == {<<1000, 5000, 10000>>, <<5000, 1000>>, <<0, 1000>>}

\* the Options each constructor of the registry is called with; the second
\* thread only races the first on two identities of name "a"
CounterInputs1 ==
    [kind : {TypeCounter}, Name : {"a"}, Tags : FewTagInputs, Buckets : {<<>>},
     TTL : {-1, 1}]
    \cup [kind : {TypeCounter}, Name : {"b"}, Tags : FewTagInputs, Buckets : {<<>>},
          TTL : {0}]
CounterInputs2 ==
    [kind : {TypeCounter}, Name : {"a"}, Tags : {EmptyTags}, Buckets : {<<>>},
     TTL : {0}]
GaugeInputs1 ==
    [kind : {TypeGauge}, Name : {"a"}, Tags : {EmptyTags} \cup InvalidTagInputs,
     Buckets : {<<>>},
     TTL : {1}]
GaugeInputs2 ==
    [kind : {TypeGauge}, Name : {"a"}, Tags : {EmptyTags}, Buckets : {<<>>},
     TTL : {1}]
HistogramInputs1 ==
    [kind : {TypeHistogram}, Name : {"a"}, Tags : FewTagInputs,
     Buckets : BucketInputs, TTL : {1}]
TimerInputs1 ==
    [kind : {TypeTimer}, Name : {"a"}, Tags : FewTagInputs,
     Buckets : {<<>>, <<5000, 1000>>}, TTL : {0}]

CounterInputs(t) == IF t = 1 THEN CounterInputs1 ELSE CounterInputs2
GaugeInputs(t) == IF t = 1 THEN GaugeInputs1 ELSE GaugeInputs2
HistogramInputs(t) == IF t = 1 THEN HistogramInputs1 ELSE {}
TimerInputs(t) == IF t = 1 THEN TimerInputs1 ELSE {}

AllInputs1 == CounterInputs1 \cup GaugeInputs1 \cup HistogramInputs1 \cup TimerInputs1
AllInputs2 == CounterInputs2 \cup GaugeInputs2
AllInputs(t) == IF t = 1 THEN AllInputs1 ELSE AllInputs2

VARIABLES
    metrics,          \* defaultRegistry.metrics: key -> metricEntry
    cardinality,      \* defaultRegistry.cardinality: name -> int
    objs,             \* the heap of primitives: objs[key][n] is the n-th
                      \* primitive allocated for key, by lookup or by With
    now,              \* the clock read by time.Now()
    cleanupInterval,  \* defaultRegistry.cleanupInterval
    cancelled,        \* whether r.cancel() has been called (ctx.Done() closed)
    loop,             \* cleanupLoop goroutine: "none", "running", "exited"
    pc,               \* per thread: "idle", "slow" (between RUnlock and Lock)
                      \* or the position inside Observe
    req,              \* per thread: arguments of the running lookup, or the
                      \* locals of a goroutine that calls the primitives
    ret,              \* what the last call to return handed to its caller
    om,               \* package operational: the scratch maps and the pool
                      \* of operationalTagPool, and the three caches of the
                      \* operationalMetrics value
    mu                \* defaultRegistry.mu, a sync.RWMutex: the goroutines
                      \* that read-hold it, those blocked in RLock, and the
                      \* one that has claimed it for writing

vars == <<metrics, cardinality, objs, now, cleanupInterval, cancelled, loop,
          pc, req, ret, om, mu>>

registryVars == <<metrics, cardinality>>

\* ---------------------------------------------------------------- helpers
\* a key made of the name alone
KeyOf_NameOnly(metricType, name) == name

\* fmt.Sprintf("%s:%s", metricType, name)
KeyOf(metricType, name) == metricType \o ":" \o name

\* reading a Go map[string]int at a missing key yields 0
CardOf(card, name) == IF name \in DOMAIN card THEN card[name] ELSE 0

MapSet(m, k, v) == [x \in DOMAIN m \cup {k} |-> IF x = k THEN v ELSE m[x]]
MapDelete(m, ks) == [x \in DOMAIN m \ ks |-> m[x]]

NoReq == [kind |-> "", Name |-> "", Tags |-> EmptyTags, Buckets |-> <<>>, TTL |-> 0]

\* a pointer to a primitive: the key it was allocated for and its number
NoId == <<"", 0>>
Deref(heap, id) == heap[id[1]][id[2]]
Allocated(heap) == UNION {{<<k, n>> : n \in 1..Len(heap[k])} : k \in DOMAIN heap}
HeapSize(heap) == Cardinality(Allocated(heap))
NextId(heap, key) == <<key, IF key \in DOMAIN heap THEN Len(heap[key]) + 1 ELSE 1>>
Alloc(heap, key, m) ==
    [k \in DOMAIN heap \cup {key} |->
        IF k = key THEN (IF key \in DOMAIN heap THEN Append(heap[key], m) ELSE <<m>>)
        ELSE heap[k]]

\* the zero value of a sync.RWMutex: nobody holds it or waits for it.  The
\* actions that are atomic because they run under the mutex leave it so.
Unlocked == [readers |-> {}, rwait |-> {}, w |-> {}]

\* package operational before New: no scratch map, an empty pool, no cache
NoOm ==
    [maps |-> <<>>, pool |-> {}, errorCounters |-> [k \in {} |-> NoId],
     operationTimers |-> [k \in {} |-> NoId],
     operationCounters |-> [k \in {} |-> NoId]]

\* what a lookup hands back: the primitive m, or the panic err it raised
Returned(id) == [err |-> "nil", m |-> id]
Panicked(e) == [err |-> e, m |-> NoId]

\* ---------------------------------------------------------------- numbers
\* A float64 argument is the record [hi, milli] that stands for
\* hi * 2^63 + milli / 1000.  A uint64 word is the record [hi, lo] that stands
\* for hi * 2^63 + lo with hi in {0, 1}; every lo the model reaches is far
\* below 2^63, so the words add exactly as 64-bit words do.
F64(h, m) == [hi |-> h, milli |-> m]
U64(n) == [hi |-> 0, lo |-> n]

\* uint64(value) of a non-negative float64 below 2^64: the fraction is dropped
ToUint64(f) == [hi |-> f.hi, lo |-> f.milli \div 1000]

\* int64(value): the fraction is dropped, towards zero
ToInt64(f) == IF f.milli >= 0 THEN f.milli \div 1000 ELSE -((-f.milli) \div 1000)

\* value > 0 of a float64
Positive(f) == f.hi > 0 \/ (f.hi = 0 /\ f.milli > 0)

\* atomic.AddUint64 wraps modulo 2^64
AddUint64(x, d) == [hi |-> (x.hi + d.hi) % 2, lo |-> x.lo + d.lo]

\* a < b of two uint64 words
U64Less(a, b) == a.hi < b.hi \/ (a.hi = b.hi /\ a.lo < b.lo)

\* make([]uint64, n)
Zeros(n) == [i \in 1..n |-> U64(0)]

\* ------------------------------------------------------------- validation
ValidateTags(tags) ==
    IF Cardinality(DOMAIN tags) > MaxKeys THEN "too many tags"
    ELSE IF \E k \in DOMAIN tags : Len(k) > MaxKeyLength THEN "key too long"
    ELSE IF \E k \in DOMAIN tags : Len(tags[k]) > MaxValueLength THEN "value too long"
    ELSE IF \E k \in DOMAIN tags : k \in DisallowedKeys THEN "not allowed"
    ELSE IF \E k \in DOMAIN tags : k = "" THEN "empty key"
    ELSE "nil"

ValidateBuckets_NoOrder(buckets) ==
    IF Len(buckets) = 0 THEN "nil"
    ELSE IF \E i \in 1..Len(buckets) : buckets[i] <= 0 THEN "must be positive"
    ELSE "nil"

ValidateBuckets(buckets) ==
    IF Len(buckets) = 0 THEN "nil"
    ELSE IF \E i \in 1..Len(buckets) : buckets[i] <= 0 THEN "must be positive"
    ELSE IF \E i \in 2..Len(buckets) : buckets[i] <= buckets[i-1] THEN "must be ascending"
    ELSE "nil"

\* ----------------------------------------------------------- constructors
baseMetric(opts, metricType) ==
    [name |-> opts.Name, metricType |-> metricType, tags |-> opts.Tags,
     value |-> 0, boundaries |-> <<>>]

newCounter(opts) ==
    [err |-> "nil", m |-> [baseMetric(opts, TypeCounter) EXCEPT !.value = U64(0)]]

newGauge(opts) == [err |-> "nil", m |-> baseMetric(opts, TypeGauge)]

histBoundaries(opts) == IF Len(opts.Buckets) = 0 THEN DefaultBuckets ELSE opts.Buckets

\* the fields histogramImpl adds to baseMetric, all zero
histogramImpl(nBuckets) ==
    [count |-> U64(0), sum |-> U64(0), min |-> U64(0), max |-> U64(0),
     buckets |-> Zeros(nBuckets)]

newHistogram(opts) ==
    IF ValidateBuckets(histBoundaries(opts)) # "nil"
    THEN [err |-> "InvalidBuckets", m |-> baseMetric(opts, TypeHistogram)]
    ELSE [err |-> "nil",
          m |-> [baseMetric(opts, TypeHistogram) EXCEPT !.boundaries = histBoundaries(opts)]
                @@ histogramImpl(Len(histBoundaries(opts)) + 1)]

newTimer(opts) ==
    [err |-> newHistogram(opts).err,
     m |-> [newHistogram(opts).m EXCEPT !.metricType = TypeTimer]]

\* the factory closure that Counter/Gauge/Histogram/Timer pass to lookup
factory(opts) ==
    CASE opts.kind = TypeCounter -> newCounter(opts)
      [] opts.kind = TypeGauge -> newGauge(opts)
      [] opts.kind = TypeHistogram -> newHistogram(opts)
      [] opts.kind = TypeTimer -> newTimer(opts)

\* ------------------------------------------------------------------- Init
Init ==
    /\ metrics = [k \in {} |-> 0]
    /\ cardinality = [n \in {} |-> 0]
    /\ objs = [k \in {} |-> <<>>]
    /\ now = 0
    /\ cleanupInterval = 1
    /\ cancelled = FALSE
    /\ loop = IF cleanupInterval > 0 THEN "running" ELSE "none"
    /\ pc = [t \in Threads |-> "idle"]
    /\ req = [t \in Threads |-> NoReq]
    /\ ret = Panicked("none")
    /\ om = NoOm
    /\ mu = Unlocked

\* ---------------------------------------------------------------- lookup
\* entry, ok := r.metrics[key] under the read lock
Probe(m, key) == key \in DOMAIN m

Recheck_Never(m, key) == FALSE
\* the write-locked part of a lookup without the double check: it makes a
\* primitive whether or not another goroutine has registered one meanwhile
Recheck_Skipped(m, key) == FALSE
\* the double check after r.mu.Lock()
Recheck(m, key) == key \in DOMAIN m

CardLimitReached_OffByOne(card, name) == CardOf(card, name) > MaxCardinality
\* a registry that sets no limit
CardLimitReached_Never(card, name) == FALSE
\* r.cardinality[opts.Name] >= r.tagValidationConfig.MaxCardinality
CardLimitReached(card, name) == CardOf(card, name) >= MaxCardinality

\* number of lookups that may still allocate a primitive
Pending == Cardinality({t \in Threads : pc[t] = "slow"})

\* lookupFast with the probe of the map moved before the tag validation
lookupFast_ProbeFirst(t, opts) ==
    /\ pc[t] = "idle"
    /\ HeapSize(objs) + Pending < MaxInstances
    /\ IF Probe(metrics, KeyOf(opts.kind, opts.Name))
       THEN /\ ret' = Returned(metrics[KeyOf(opts.kind, opts.Name)].metric)
            /\ UNCHANGED <<pc, req>>
       ELSE IF ValidateTags(opts.Tags) # "nil"
       THEN /\ ret' = Panicked("InvalidTags")
            /\ UNCHANGED <<pc, req>>
       ELSE /\ pc' = [pc EXCEPT ![t] = "slow"]
            /\ req' = [req EXCEPT ![t] = opts]
            /\ UNCHANGED ret
    /\ UNCHANGED <<om, metrics, cardinality, objs, now, mu, cleanupInterval, cancelled,
                   loop>>

\* a lookup that checks the expiry itself: it drops an entry whose expiry
\* has passed and goes on to make a new primitive
lookupFast_Evicts(t, opts) ==
    /\ pc[t] = "idle"
    /\ HeapSize(objs) + Pending < MaxInstances
    /\ LET key == KeyOf(opts.kind, opts.Name)
           stale == key \in DOMAIN metrics /\ metrics[key].ttl > 0
                    /\ now > metrics[key].expiresAt
       IN IF ValidateTags(opts.Tags) # "nil"
          THEN /\ ret' = Panicked("InvalidTags")
               /\ UNCHANGED <<pc, req, metrics>>
          ELSE IF Probe(metrics, key) /\ ~stale
          THEN /\ ret' = Returned(metrics[key].metric)
               /\ UNCHANGED <<pc, req, metrics>>
          ELSE /\ pc' = [pc EXCEPT ![t] = "slow"]
               /\ req' = [req EXCEPT ![t] = opts]
               /\ metrics' = MapDelete(metrics, IF stale THEN {key} ELSE {})
               /\ UNCHANGED ret
    /\ UNCHANGED <<om, cardinality, objs, now, mu, cleanupInterval, cancelled, loop>>

\* lookup up to the first RUnlock: tag validation and the read-locked probe
lookupFast(t, opts) ==
    /\ pc[t] = "idle"
    /\ HeapSize(objs) + Pending < MaxInstances
    /\ IF ValidateTags(opts.Tags) # "nil"
       THEN /\ ret' = Panicked("InvalidTags")
            /\ UNCHANGED <<pc, req>>
       ELSE IF Probe(metrics, KeyOf(opts.kind, opts.Name))
       THEN /\ ret' = Returned(metrics[KeyOf(opts.kind, opts.Name)].metric)
            /\ UNCHANGED <<pc, req>>
       ELSE /\ pc' = [pc EXCEPT ![t] = "slow"]
            /\ req' = [req EXCEPT ![t] = opts]
            /\ UNCHANGED ret
    /\ UNCHANGED <<om, metrics, cardinality, objs, now, mu, cleanupInterval, cancelled,
                   loop>>

\* the entry lookup stores for a new metric
newEntry(id, opts) ==
    [metric |-> id, ttl |-> opts.TTL,
     expiresAt |-> IF opts.TTL > 0 THEN now + opts.TTL ELSE ZeroTime]

\* lookup from r.mu.Lock() to the deferred Unlock
lookupSlow(t) ==
    /\ pc[t] = "slow"
    /\ LET opts == req[t]
           key == KeyOf(opts.kind, opts.Name)
       IN IF Recheck(metrics, key)
          THEN /\ ret' = Returned(metrics[key].metric)
               /\ UNCHANGED <<metrics, cardinality, objs>>
          ELSE IF CardLimitReached(cardinality, opts.Name)
          THEN /\ ret' = Panicked("CardinalityExceeded")
               /\ UNCHANGED <<metrics, cardinality, objs>>
          ELSE IF factory(opts).err # "nil"
          THEN /\ ret' = Panicked(factory(opts).err)
               /\ UNCHANGED <<metrics, cardinality, objs>>
          ELSE /\ objs' = Alloc(objs, key, factory(opts).m)
               /\ metrics' = MapSet(metrics, key, newEntry(NextId(objs, key), opts))
               /\ cardinality' = MapSet(cardinality, opts.Name,
                                        CardOf(cardinality, opts.Name) + 1)
               /\ ret' = Returned(NextId(objs, key))
    /\ pc' = [pc EXCEPT ![t] = "idle"]
    /\ req' = [req EXCEPT ![t] = NoReq]
    /\ UNCHANGED <<om, now, mu, cleanupInterval, cancelled, loop>>

Counter(t) == \E opts \in CounterInputs(t) : lookupFast(t, opts)
Gauge(t) == \E opts \in GaugeInputs(t) : lookupFast(t, opts)
Histogram(t) == \E opts \in HistogramInputs(t) : lookupFast(t, opts)
Timer(t) == \E opts \in TimerInputs(t) : lookupFast(t, opts)

\* ------------------------------------------------------------- Unregister
\* an Unregister that matches the counter key only
UnregisterKeys_CounterOnly(m, name) ==
    {key \in DOMAIN m : KeyOf(TypeCounter, name) = key}

\* the keys the loop of Unregister deletes: the four formatted keys of name
UnregisterKeys(m, name) ==
    {key \in DOMAIN m : \E ty \in Types : KeyOf(ty, name) = key}

\* a call that finds no entry of the name changes no state: a stuttering step
Unregister(name) ==
    /\ UnregisterKeys(metrics, name) # {}
    /\ metrics' = MapDelete(metrics, UnregisterKeys(metrics, name))
    /\ UNCHANGED <<om, cardinality, objs, now, mu, cleanupInterval, cancelled, loop,
                   pc, req, ret>>

\* ---------------------------------------------------------------- cleanup
ExpiredKeys_NoSkip(m, at) == {k \in DOMAIN m : at > m[k].expiresAt}

\* a sweep that lets an entry live one clock unit past its expiry
ExpiredKeys_Late(m, at) == {k \in DOMAIN m : m[k].ttl # 0 /\ at > m[k].expiresAt + 1}

\* the entries one pass of cleanupExpired deletes when time.Now() returns at
ExpiredKeys(m, at) == {k \in DOMAIN m : m[k].ttl # 0 /\ at > m[k].expiresAt}

RECURSIVE DecrementAll_NoDelete(_, _, _)
DecrementAll_NoDelete(card, m, keys) ==
    IF keys = {} THEN card
    ELSE LET k == CHOOSE x \in keys : TRUE
             name == Deref(objs, m[k].metric).name
         IN DecrementAll_NoDelete(MapSet(card, name, CardOf(card, name) - 1),
                                  m, keys \ {k})

RECURSIVE DecrementAll(_, _, _)
\* r.cardinality[metricName]--; delete when it is <= 0, once per removed key
DecrementAll(card, m, keys) ==
    IF keys = {} THEN card
    ELSE LET k == CHOOSE x \in keys : TRUE
             name == Deref(objs, m[k].metric).name
             c == CardOf(card, name) - 1
         IN DecrementAll(IF c <= 0 THEN MapDelete(card, {name})
                         ELSE MapSet(card, name, c),
                         m, keys \ {k})

cleanupExpired ==
    /\ metrics' = MapDelete(metrics, ExpiredKeys(metrics, now))
    /\ cardinality' = DecrementAll(cardinality, metrics, ExpiredKeys(metrics, now))

\* a pass that finds nothing expired changes no state: a stuttering step
ManualCleanup ==
    /\ ExpiredKeys(metrics, now) # {}
    /\ cleanupExpired
    /\ UNCHANGED <<om, objs, now, mu, cleanupInterval, cancelled, loop, pc, req, ret>>

\* cleanupLoop: the ticker.C branch of the select
cleanupLoopTick ==
    /\ loop = "running"
    /\ ExpiredKeys(metrics, now) # {}
    /\ cleanupExpired
    /\ UNCHANGED <<om, objs, now, mu, cleanupInterval, cancelled, loop, pc, req, ret>>

\* a cleanupLoop whose select has no ctx.Done() branch
cleanupLoopDone_NoReturn ==
    /\ loop = "running"
    /\ cancelled
    /\ UNCHANGED vars

\* cleanupLoop: the ctx.Done() branch of the select
cleanupLoopDone ==
    /\ loop = "running"
    /\ cancelled
    /\ loop' = "exited"
    /\ UNCHANGED <<om, metrics, cardinality, objs, now, mu, cleanupInterval, cancelled,
                   pc, req, ret>>

\* ------------------------------------------------------------------ Close
\* a Close that also releases the registry's maps
Close_Clears ==
    /\ cancelled' = TRUE
    /\ metrics' = [k \in {} |-> 0]
    /\ cardinality' = [n \in {} |-> 0]
    /\ UNCHANGED <<om, objs, now, mu, cleanupInterval, loop, pc, req, ret>>

\* r.cancel() closes ctx.Done(); cancelling a cancelled context does nothing
Close ==
    /\ cancelled' = TRUE
    /\ UNCHANGED <<om, metrics, cardinality, objs, now, mu, cleanupInterval, loop,
                   pc, req, ret>>

\* ------------------------------------------------------------------ clock
Tick ==
    /\ now < MaxTime
    /\ now' = now + 1
    /\ UNCHANGED <<om, metrics, cardinality, objs, mu, cleanupInterval, cancelled, loop,
                   pc, req, ret>>

Next ==
    \/ \E t \in Threads : Counter(t)
    \/ \E t \in Threads : Gauge(t)
    \/ \E t \in Threads : Histogram(t)
    \/ \E t \in Threads : Timer(t)
    \/ \E t \in Threads : lookupSlow(t)
    \/ \E name \in Names : Unregister(name)
    \/ ManualCleanup
    \/ cleanupLoopTick
    \/ cleanupLoopDone
    \/ Close
    \/ Tick

Spec == Init /\ [][Next]_vars

\* ------------------------------------------------------- derived notions
\* the entries registered under a name
KeysOfName(m, name) == {k \in DOMAIN m : Deref(objs, m[k].metric).name = name}

\* thread t runs the write-locked part of lookup in this step
SlowStep(t) == pc[t] = "slow" /\ pc'[t] = "idle"
ReqKey(t) == KeyOf(req[t].kind, req[t].Name)

\* this step is one pass of cleanupExpired
SweepStep == metrics' # metrics /\ (ManualCleanup \/ cleanupLoopTick)

\* some lookup returns from its read-locked part in this step: with opts, if
\* FastStep(t, opts) holds
FastReturn == ret' # ret /\ pc' = pc
FastStep(t, opts) == FastReturn /\ lookupFast(t, opts)

TypeOK ==
    /\ \A k \in DOMAIN metrics : metrics[k].metric \in Allocated(objs)
    /\ now \in 0..MaxTime

\* ------------------------------------------------------------------ claims

\* C1: concurrent lookups of one (kind, name) get the same primitive: a lookup
\* never replaces the primitive of a registered key, allocates one only for a
\* key that is not registered, and returns the primitive the map holds.
C1_SameInstance ==
    [][/\ \A k \in DOMAIN metrics \cap DOMAIN metrics' :
             metrics'[k].metric = metrics[k].metric
       /\ \A t \in Threads :
             SlowStep(t) =>
                /\ objs' # objs => ReqKey(t) \notin DOMAIN metrics
                /\ ret'.err = "nil" => /\ ReqKey(t) \in DOMAIN metrics'
                                       /\ ret'.m = metrics'[ReqKey(t)].metric
       /\ (FastReturn /\ ret'.err = "nil") =>
             \A t \in Threads : \A opts \in AllInputs(t) :
                FastStep(t, opts) =>
                   /\ KeyOf(opts.kind, opts.Name) \in DOMAIN metrics'
                   /\ ret'.m = metrics'[KeyOf(opts.kind, opts.Name)].metric]_vars

\* thread 2 is between the probe and the write lock for a key that thread 1
\* has registered meanwhile and whose primitive thread 1 got back
C1_Witness ==
    /\ pc[2] = "slow"
    /\ ReqKey(2) \in DOMAIN metrics
    /\ ret = Returned(metrics[ReqKey(2)].metric)

\* C2: a lookup that finds its key unregistered under the write lock while
\* the name's count has reached MaxCardinality panics with the cardinality
\* error and changes neither the map nor the counts.
C2_CardinalityExceeded ==
    [][\A t \in Threads :
          (/\ SlowStep(t)
           /\ ReqKey(t) \notin DOMAIN metrics
           /\ CardOf(cardinality, req[t].Name) >= MaxCardinality)
          => /\ ret' = Panicked("CardinalityExceeded")
             /\ UNCHANGED <<metrics, cardinality, objs>>]_vars

\* two kinds are registered under "a" and the creation of a third one failed
C2_Witness ==
    /\ ret = Panicked("CardinalityExceeded")
    /\ Cardinality(KeysOfName(metrics, "a")) = MaxCardinality
    /\ cardinality["a"] = MaxCardinality

\* C3 (as claimed): a lookup of an unregistered key succeeds whenever fewer
\* than MaxCardinality entries are live under its name.
C3_CreateBelowLimit ==
    [][\A t \in Threads :
          (/\ SlowStep(t)
           /\ ReqKey(t) \notin DOMAIN metrics
           /\ Cardinality(KeysOfName(metrics, req[t].Name)) < MaxCardinality)
          => ret'.err # "CardinalityExceeded"]_vars

\* C4 (as claimed): the count of a name is the number of its entries.
C4_CardinalityMatches ==
    \A name \in Names :
        CardOf(cardinality, name) = Cardinality(KeysOfName(metrics, name))

\* C5 (as claimed): a sweep removes exactly the entries with ttl > 0 whose
\* expiresAt lies before the time of the sweep.
C5_SweepExact ==
    [][SweepStep =>
          DOMAIN metrics \ DOMAIN metrics' =
             {k \in DOMAIN metrics : metrics[k].ttl > 0 /\ metrics[k].expiresAt < now}]_vars

\* C6: an entry with ttl = 0 leaves the map only in a step of Unregister.
C6_NoTTLNeverSwept ==
    [][\A k \in DOMAIN metrics :
          (metrics[k].ttl = 0 /\ k \notin DOMAIN metrics')
          => \E name \in Names : Unregister(name)]_vars

\* the timer (ttl = 0) and the gauge (ttl > 0) of "a" filled the name up to
\* its limit, as the failed third creation shows; a sweep then took the gauge
\* off the count and out of the map, and the timer is still registered
C6_Witness ==
    /\ Allocated(objs) = {<<KeyOf(TypeTimer, "a"), 1>>, <<KeyOf(TypeGauge, "a"), 1>>}
    /\ DOMAIN metrics = {KeyOf(TypeTimer, "a")}
    /\ metrics[KeyOf(TypeTimer, "a")].ttl = 0
    /\ CardOf(cardinality, "a") = 1
    /\ ret = Panicked("CardinalityExceeded")

\* C7: a sweep lowers the count of each name by the number of that name's
\* entries it evicts, drops a count that reaches zero, and leaves a name it
\* evicted from below the cardinality limit.
C7_SweepDecrements ==
    [][SweepStep =>
          \A name \in Names :
             LET evicted == Cardinality(KeysOfName(metrics, name)
                                        \ KeysOfName(metrics', name))
             IN /\ CardOf(cardinality', name) = CardOf(cardinality, name) - evicted
                /\ name \in DOMAIN cardinality' => cardinality'[name] > 0
                /\ evicted > 0 => CardOf(cardinality', name) < MaxCardinality]_vars

\* the gauge and the histogram of "a", both with a TTL, filled the name up
\* to its limit, a sweep evicted both and took them off the count, and a
\* third primitive was then created under "a"
C7_Witness ==
    /\ {<<KeyOf(TypeGauge, "a"), 1>>, <<KeyOf(TypeHistogram, "a"), 1>>} \subseteq Allocated(objs)
    /\ Cardinality(Allocated(objs)) = 3
    /\ Cardinality(DOMAIN metrics) = 1
    /\ DOMAIN metrics \cap {KeyOf(TypeGauge, "a"), KeyOf(TypeHistogram, "a")} = {}
    /\ KeysOfName(metrics, "a") = DOMAIN metrics
    /\ cardinality = [n \in {"a"} |-> 1]
    /\ ret.err = "nil" /\ ret.m \in {metrics[k].metric : k \in DOMAIN metrics}

\* the lookups of each thread whose tags ValidateTags rejects
InvalidTagLookups1 == {opts \in AllInputs1 : ValidateTags(opts.Tags) # "nil"}
InvalidTagLookups2 == {opts \in AllInputs2 : ValidateTags(opts.Tags) # "nil"}
InvalidTagLookups(t) == IF t = 1 THEN InvalidTagLookups1 ELSE InvalidTagLookups2

\* C8: a lookup with invalid tags panics with the tag error, whether or not
\* its key is registered, and changes nothing in the registry.
C8_InvalidTags ==
    [][FastReturn =>
          \A t \in Threads : \A opts \in InvalidTagLookups(t) :
             FastStep(t, opts)
             => /\ ret' = Panicked("InvalidTags")
                /\ UNCHANGED <<metrics, cardinality, objs, pc, req>>]_vars

\* the tag error was raised while the counter "a" is registered
C8_Witness ==
    /\ ret = Panicked("InvalidTags")
    /\ KeyOf(TypeCounter, "a") \in DOMAIN metrics

\* C9 (as claimed): no lookup of a histogram or timer with valid tags and
\* invalid boundaries returns a primitive; it panics with the bucket error
\* and changes nothing in the registry.
C9_AlwaysRejected ==
    [][/\ FastReturn =>
             \A t \in Threads : \A opts \in HistogramInputs(t) \cup TimerInputs(t) :
                (/\ ValidateTags(opts.Tags) = "nil"
                 /\ ValidateBuckets(opts.Buckets) # "nil"
                 /\ FastStep(t, opts))
                => ret' = Panicked("InvalidBuckets")
       /\ \A t \in Threads :
             (/\ SlowStep(t)
              /\ req[t].kind \in {TypeHistogram, TypeTimer}
              /\ ValidateBuckets(req[t].Buckets) # "nil")
             => /\ ret' = Panicked("InvalidBuckets")
                /\ UNCHANGED <<metrics, cardinality, objs>>]_vars

\* C9 (amended): a lookup of a histogram or timer with invalid boundaries that
\* finds its key unregistered under the write lock and its name below the
\* cardinality limit panics with the bucket error and changes nothing; a
\* lookup that finds its key registered returns the stored primitive and
\* changes nothing, whatever its boundaries are.
C9_RejectedOnCreation ==
    [][/\ \A t \in Threads :
          (/\ SlowStep(t)
           /\ req[t].kind \in {TypeHistogram, TypeTimer}
           /\ Len(req[t].Buckets) > 0
           /\ \/ \E i \in 1..Len(req[t].Buckets) : req[t].Buckets[i] <= 0
              \/ \E i \in 2..Len(req[t].Buckets) :
                    req[t].Buckets[i] <= req[t].Buckets[i-1]
           /\ ReqKey(t) \notin DOMAIN metrics
           /\ CardOf(cardinality, req[t].Name) < MaxCardinality)
          => /\ ret' = Panicked("InvalidBuckets")
             /\ UNCHANGED <<metrics, cardinality, objs>>
       /\ \A t \in Threads :
          (SlowStep(t) /\ ReqKey(t) \in DOMAIN metrics)
          => /\ ret' = Returned(metrics[ReqKey(t)].metric)
             /\ UNCHANGED <<metrics, cardinality, objs>>
       /\ FastReturn =>
             \A t \in Threads : \A opts \in HistogramInputs(t) \cup TimerInputs(t) :
                (/\ ValidateTags(opts.Tags) = "nil"
                 /\ KeyOf(opts.kind, opts.Name) \in DOMAIN metrics
                 /\ FastStep(t, opts))
                => /\ ret' = Returned(metrics[KeyOf(opts.kind, opts.Name)].metric)
                   /\ UNCHANGED <<metrics, cardinality, objs>>]_vars

\* the bucket error was raised for a name that has no entry and no count
C9_Witness ==
    /\ ret = Panicked("InvalidBuckets")
    /\ KeysOfName(metrics, "a") = {}

IncrementsPerGoroutine == 3
MaxCalls == 2

\* ----------------------------------------------------- pure operations
\* copyTags: the original's entries, then the new ones over them
copyTags(originalTags, newTags) ==
    [k \in DOMAIN originalTags \cup DOMAIN newTags |->
        IF k \in DOMAIN newTags THEN newTags[k] ELSE originalTags[k]]

\* With that copies the whole struct and replaces the tags
counterWith_CopiesValue(c, tags) ==
    [name |-> c.name, metricType |-> c.metricType,
     tags |-> copyTags(c.tags, tags), value |-> c.value, boundaries |-> <<>>]

counterWith(c, tags) ==
    [name |-> c.name, metricType |-> c.metricType,
     tags |-> copyTags(c.tags, tags), value |-> U64(0), boundaries |-> <<>>]

gaugeWith(g, tags) ==
    [name |-> g.name, metricType |-> g.metricType,
     tags |-> copyTags(g.tags, tags), value |-> 0, boundaries |-> <<>>]

\* the literal sets baseMetric and buckets only: boundaries stays nil
histogramWith(h, tags) ==
    [name |-> h.name, metricType |-> h.metricType,
     tags |-> copyTags(h.tags, tags), value |-> 0, boundaries |-> <<>>]
    @@ histogramImpl(Len(h.buckets))

\* timerImpl{histogram: t.histogram.With(tags)}
timerWith(t, tags) == histogramWith(t, tags)

RECURSIVE Search(_, _, _, _)
\* sort.SearchFloat64s: binary search for the smallest 0-based index in
\* [i, j) whose element is >= x, j if there is none
Search(a, x, i, j) ==
    IF i < j
    THEN LET h == (i + j) \div 2
         IN IF ~(a[h + 1] >= x) THEN Search(a, x, h + 1, j) ELSE Search(a, x, i, h)
    ELSE i

\* findBucket with the tie sent to the next bucket
findBucket_TieNext(boundaries, value) ==
    LET index == Search(boundaries, value, 0, Len(boundaries))
    IN IF index < Len(boundaries) /\ value < boundaries[index + 1]
       THEN index
       ELSE IF index < Len(boundaries) THEN index + 1 ELSE Len(boundaries)

\* the 0-based bucket index of a value, both in units of 1/1000
findBucket(boundaries, value) ==
    LET index == Search(boundaries, value, 0, Len(boundaries))
    IN IF index < Len(boundaries) /\ value <= boundaries[index + 1]
       THEN index
       ELSE Len(boundaries)

\* ------------------------------------------------------------ goroutines
\* one call of a program: method op of primitive number on, with the
\* float64 argument arg or, for With, the tags
Call(o, n, a, tg) == [op |-> o, on |-> n, arg |-> a, tags |-> tg]

SeqsUpTo(A, n) == UNION {[1..k -> A] : k \in 0..n}

\* a program derives at most one primitive, from the registered one, and
\* calls the derived one only after it has derived it
WellFormed(p) ==
    /\ Cardinality({k \in 1..Len(p) : p[k].op = "With"}) <= 1
    /\ \A k \in 1..Len(p) :
          p[k].on = 2 => \E j \in 1..(k - 1) : p[j].op = "With"

Programs(A) == {p \in SeqsUpTo(A, MaxCalls) : WellFormed(p)}

BaseTags == [k \in {"env"} |-> "dev"]
WithTags == {[k \in {"env"} |-> "prod"], [k \in {"zone"} |-> "a"]}
WithCalls == {Call("With", 1, F64(0, 0), tg) : tg \in WithTags}

PrimOptions(kind, buckets) ==
    [kind |-> kind, Name |-> "a", Tags |-> BaseTags, Buckets |-> buckets, TTL |-> 0]

\* counter: -1.5, 0, 2.5 and 2^63
CounterDeltas == {F64(0, -1500), F64(0, 0), F64(0, 2500), F64(1, 0)}
CounterCalls1 ==
    {Call("Inc", n, F64(0, 0), EmptyTags) : n \in {1, 2}}
    \cup {Call("Add", n, d, EmptyTags) : n \in {1, 2}, d \in CounterDeltas}
    \cup WithCalls
CounterCalls2 ==
    {Call("Inc", 1, F64(0, 0), EmptyTags), Call("Add", 1, F64(0, 2500), EmptyTags),
     Call("Add", 1, F64(1, 0), EmptyTags)}
\* the goroutine of TestCounterConcurrency
IncProgram == [j \in 1..IncrementsPerGoroutine |-> Call("Inc", 1, F64(0, 0), EmptyTags)]
CounterPrograms1 == Programs(CounterCalls1) \cup {IncProgram}
CounterPrograms2 == SeqsUpTo(CounterCalls2, 1) \cup {IncProgram}

\* gauge: Set, Add, Inc and Dec
GaugeCalls1 ==
    {Call(o, n, F64(0, 0), EmptyTags) : o \in {"Inc", "Dec"}, n \in {1, 2}}
    \cup {Call(o, n, F64(0, -2500), EmptyTags) : o \in {"Set", "Add"}, n \in {1, 2}}
    \cup WithCalls
GaugeCalls2 == {Call("Set", 1, F64(0, 1500), EmptyTags), Call("Dec", 1, F64(0, 0), EmptyTags)}
GaugePrograms1 == Programs(GaugeCalls1)
GaugePrograms2 == SeqsUpTo(GaugeCalls2, 1)

\* histogram: 0, 1, 2 and 3 observed against the boundaries 1, 5, 10
HistogramBuckets == <<1000, 5000, 10000>>
ObserveValues == {F64(0, 0), F64(0, 1000), F64(0, 2000), F64(0, 3000)}
HistogramCalls1 ==
    {Call("Observe", n, v, EmptyTags) : n \in {1, 2}, v \in ObserveValues}
    \cup WithCalls
HistogramCalls2 == {Call("Observe", 1, v, EmptyTags) : v \in ObserveValues}
HistogramPrograms1 == Programs(HistogramCalls1)
HistogramPrograms2 == SeqsUpTo(HistogramCalls2, 1)

\* timer: durations of 2 and 7
RecordValues == {F64(0, 2000), F64(0, 7000)}
TimerCalls1 ==
    {Call("Record", n, v, EmptyTags) : n \in {1, 2}, v \in RecordValues}
    \cup WithCalls
TimerCalls2 == {Call("Record", 1, F64(0, 2000), EmptyTags)}
TimerPrograms1 == Programs(TimerCalls1)
TimerPrograms2 == SeqsUpTo(TimerCalls2, 1)

\* one observation, by one goroutine, of each value around each boundary
\* of several boundary arrays, on the histogram or on one derived from it
BucketBoundaries ==
    {<<1000, 5000, 10000>>, <<>>, <<2000>>, <<500, 1000, 1500, 2000>>}
BucketValues ==
    {F64(0, m) : m \in {0, 1, 499, 500, 501, 1000, 1500, 1999, 2000, 2001,
                        5000, 7000, 10000, 10001, 200000}}
BucketPrograms1 ==
    {<<Call("Observe", 1, v, EmptyTags)>> : v \in BucketValues}
    \cup {<<Call("With", 1, F64(0, 0), CHOOSE tg \in WithTags : TRUE),
            Call("Observe", 2, v, EmptyTags)>> : v \in BucketValues}

\* the locals of a goroutine that is handed the primitive of key and is
\* about to run program p
Goroutine(key, p) == [key |-> key, prog |-> p, i |-> 0, current |-> U64(0)]

\* the state after the registry has made the primitive of opts and the
\* goroutines have been handed their programs
PrimInitWith(opts, p1, p2) ==
    /\ now = 0
    /\ objs = Alloc([k \in {} |-> <<>>], KeyOf(opts.kind, opts.Name), factory(opts).m)
    /\ metrics = MapSet([k \in {} |-> 0], KeyOf(opts.kind, opts.Name),
                        newEntry(<<KeyOf(opts.kind, opts.Name), 1>>, opts))
    /\ cardinality = MapSet([n \in {} |-> 0], opts.Name, 1)
    /\ cleanupInterval = 1
    /\ cancelled = FALSE
    /\ loop = "running"
    /\ pc = [t \in Threads |-> "idle"]
    /\ req = [t \in Threads |->
                Goroutine(KeyOf(opts.kind, opts.Name), IF t = 1 THEN p1 ELSE p2)]
    /\ ret = Returned(<<KeyOf(opts.kind, opts.Name), 1>>)
    /\ om = NoOm
    /\ mu = Unlocked

PrimInit ==
    \/ \E p1 \in CounterPrograms1 : \E p2 \in CounterPrograms2 :
          PrimInitWith(PrimOptions(TypeCounter, <<>>), p1, p2)
    \/ \E p1 \in GaugePrograms1 : \E p2 \in GaugePrograms2 :
          PrimInitWith(PrimOptions(TypeGauge, <<>>), p1, p2)
    \/ \E p1 \in HistogramPrograms1 : \E p2 \in HistogramPrograms2 :
          PrimInitWith(PrimOptions(TypeHistogram, HistogramBuckets), p1, p2)
    \/ \E p1 \in TimerPrograms1 : \E p2 \in TimerPrograms2 :
          PrimInitWith(PrimOptions(TypeTimer, <<>>), p1, p2)
    \/ \E b \in BucketBoundaries : \E p1 \in BucketPrograms1 :
          PrimInitWith(PrimOptions(TypeHistogram, b), p1, <<>>)

\* --------------------------------------------------------------- actions
Store(heap, id, m) == [heap EXCEPT ![id[1]][id[2]] = m]

\* the call goroutine t makes next, its receiver and the receiver's state
NextCall(t) == req[t].prog[req[t].i + 1]
Calls(t, o) == pc[t] = "idle" /\ req[t].i < Len(req[t].prog) /\ NextCall(t).op = o
Self(t) == <<req[t].key, NextCall(t).on>>
This(t) == Deref(objs, Self(t))
Is(t, metricType) == This(t).metricType = metricType

\* the call returns: the goroutine moves on to its next call
Return(t) ==
    /\ pc' = [pc EXCEPT ![t] = "idle"]
    /\ req' = [req EXCEPT ![t].i = @ + 1, ![t].current = U64(0)]

RegistryUntouched ==
    UNCHANGED <<om, metrics, cardinality, now, mu, cleanupInterval, cancelled, loop>>

\* Inc with a value receiver: it adds to a copy of the counter
counterInc_ByValue(t) ==
    /\ Calls(t, "Inc") /\ Is(t, TypeCounter)
    /\ Return(t)
    /\ UNCHANGED <<objs, ret>>
    /\ RegistryUntouched

\* counterImpl.Inc
counterInc(t) ==
    /\ Calls(t, "Inc") /\ Is(t, TypeCounter)
    /\ objs' = Store(objs, Self(t),
                     [This(t) EXCEPT !.value = AddUint64(@, U64(1))])
    /\ Return(t)
    /\ UNCHANGED ret
    /\ RegistryUntouched

\* counterImpl.Add
counterAdd(t) ==
    /\ Calls(t, "Add") /\ Is(t, TypeCounter)
    /\ objs' = IF Positive(NextCall(t).arg)
               THEN Store(objs, Self(t),
                          [This(t) EXCEPT !.value =
                              AddUint64(@, ToUint64(NextCall(t).arg))])
               ELSE objs
    /\ Return(t)
    /\ UNCHANGED ret
    /\ RegistryUntouched

\* gaugeImpl.Set
gaugeSet(t) ==
    /\ Calls(t, "Set") /\ Is(t, TypeGauge)
    /\ objs' = Store(objs, Self(t),
                     [This(t) EXCEPT !.value = ToInt64(NextCall(t).arg)])
    /\ Return(t)
    /\ UNCHANGED ret
    /\ RegistryUntouched

\* gaugeImpl.Add
gaugeAdd(t) ==
    /\ Calls(t, "Add") /\ Is(t, TypeGauge)
    /\ objs' = Store(objs, Self(t),
                     [This(t) EXCEPT !.value = @ + ToInt64(NextCall(t).arg)])
    /\ Return(t)
    /\ UNCHANGED ret
    /\ RegistryUntouched

\* gaugeImpl.Inc
gaugeInc(t) ==
    /\ Calls(t, "Inc") /\ Is(t, TypeGauge)
    /\ objs' = Store(objs, Self(t), [This(t) EXCEPT !.value = @ + 1])
    /\ Return(t)
    /\ UNCHANGED ret
    /\ RegistryUntouched

\* a Dec that writes back the word it loaded, less one, in a second step
\* that another write may precede: here the write is lost
gaugeDec_Lost(t) ==
    /\ Calls(t, "Dec") /\ Is(t, TypeGauge)
    /\ objs' = IF \E u \in Threads : u # t /\ req[u].i > 0
               THEN objs
               ELSE Store(objs, Self(t), [This(t) EXCEPT !.value = @ - 1])
    /\ Return(t)
    /\ UNCHANGED ret
    /\ RegistryUntouched

\* gaugeImpl.Dec
gaugeDec(t) ==
    /\ Calls(t, "Dec") /\ Is(t, TypeGauge)
    /\ objs' = Store(objs, Self(t), [This(t) EXCEPT !.value = @ - 1])
    /\ Return(t)
    /\ UNCHANGED ret
    /\ RegistryUntouched

\* what With of a primitive of each kind builds
derived(m, tags) ==
    CASE m.metricType = TypeCounter -> counterWith(m, tags)
      [] m.metricType = TypeGauge -> gaugeWith(m, tags)
      [] m.metricType = TypeHistogram -> histogramWith(m, tags)
      [] m.metricType = TypeTimer -> timerWith(m, tags)

\* With that registers what it derives in place of its receiver
With_Registers(t) ==
    /\ Calls(t, "With")
    /\ objs' = Alloc(objs, Self(t)[1], derived(This(t), NextCall(t).tags))
    /\ ret' = Returned(NextId(objs, Self(t)[1]))
    /\ metrics' = [metrics EXCEPT ![Self(t)[1]].metric = NextId(objs, Self(t)[1])]
    /\ Return(t)
    /\ UNCHANGED <<om, cardinality, now, mu, cleanupInterval, cancelled, loop>>

\* counterImpl.With, gaugeImpl.With, histogramImpl.With, timerImpl.With:
\* the new primitive goes to the heap and to the caller, nowhere else
With(t) ==
    /\ Calls(t, "With")
    /\ objs' = Alloc(objs, Self(t)[1], derived(This(t), NextCall(t).tags))
    /\ ret' = Returned(NextId(objs, Self(t)[1]))
    /\ Return(t)
    /\ RegistryUntouched

\* histogramImpl.Observe(value), and timerImpl.Record(d), which calls it with
\* float64(d.Nanoseconds()); v is the local uint64(value)
Observes(t) ==
    \/ Calls(t, "Observe") /\ Is(t, TypeHistogram)
    \/ Calls(t, "Record") /\ Is(t, TypeTimer)
InObserve(t, at) == pc[t] = at /\ req[t].i < Len(req[t].prog)
ObservedValue(t) == NextCall(t).arg
ObservedV(t) == ToUint64(NextCall(t).arg)

\* atomic.AddUint64(&h.count, 1)
ObserveCount(t) ==
    /\ Observes(t)
    /\ objs' = Store(objs, Self(t), [This(t) EXCEPT !.count = AddUint64(@, U64(1))])
    /\ pc' = [pc EXCEPT ![t] = "sum"]
    /\ UNCHANGED <<req, ret>>
    /\ RegistryUntouched

\* atomic.AddUint64(&h.sum, v)
ObserveSum(t) ==
    /\ InObserve(t, "sum")
    /\ objs' = Store(objs, Self(t), [This(t) EXCEPT !.sum = AddUint64(@, ObservedV(t))])
    /\ pc' = [pc EXCEPT ![t] = "bucket"]
    /\ UNCHANGED <<req, ret>>
    /\ RegistryUntouched

\* Observe that loops over the boundaries only and has no +Inf bucket to count in
ObserveBucket_NoInf(t) ==
    /\ InObserve(t, "bucket")
    /\ objs' = IF findBucket(This(t).boundaries, ObservedValue(t).milli)
                     < Len(This(t).boundaries)
               THEN Store(objs, Self(t),
                          [This(t) EXCEPT
                             !.buckets[findBucket(This(t).boundaries,
                                                  ObservedValue(t).milli) + 1] =
                                 AddUint64(@, U64(1))])
               ELSE objs
    /\ pc' = [pc EXCEPT ![t] = "min_load"]
    /\ UNCHANGED <<req, ret>>
    /\ RegistryUntouched

\* atomic.AddUint64(&h.buckets[h.findBucket(value)], 1)
ObserveBucket(t) ==
    /\ InObserve(t, "bucket")
    /\ objs' = Store(objs, Self(t),
                     [This(t) EXCEPT
                        !.buckets[findBucket(This(t).boundaries,
                                             ObservedValue(t).milli) + 1] =
                            AddUint64(@, U64(1))])
    /\ pc' = [pc EXCEPT ![t] = "min_load"]
    /\ UNCHANGED <<req, ret>>
    /\ RegistryUntouched

\* updateMin: current := atomic.LoadUint64(&h.min) and the test on it
updateMinLoad(t) ==
    /\ InObserve(t, "min_load")
    /\ IF This(t).min = U64(0) \/ U64Less(ObservedV(t), This(t).min)
       THEN /\ pc' = [pc EXCEPT ![t] = "min_cas"]
            /\ req' = [req EXCEPT ![t].current = This(t).min]
       ELSE /\ pc' = [pc EXCEPT ![t] = "max_load"]
            /\ UNCHANGED req
    /\ UNCHANGED <<objs, ret>>
    /\ RegistryUntouched

\* updateMin that stores what it computed from the word it loaded
updateMinCAS_Store(t) ==
    /\ InObserve(t, "min_cas")
    /\ objs' = Store(objs, Self(t), [This(t) EXCEPT !.min = ObservedV(t)])
    /\ pc' = [pc EXCEPT ![t] = "max_load"]
    /\ UNCHANGED <<req, ret>>
    /\ RegistryUntouched

\* updateMin: atomic.CompareAndSwapUint64(&h.min, current, v)
updateMinCAS(t) ==
    /\ InObserve(t, "min_cas")
    /\ IF This(t).min = req[t].current
       THEN /\ objs' = Store(objs, Self(t), [This(t) EXCEPT !.min = ObservedV(t)])
            /\ pc' = [pc EXCEPT ![t] = "max_load"]
       ELSE /\ pc' = [pc EXCEPT ![t] = "min_load"]
            /\ UNCHANGED objs
    /\ UNCHANGED <<req, ret>>
    /\ RegistryUntouched

\* updateMax: current := atomic.LoadUint64(&h.max) and the test on it
updateMaxLoad(t) ==
    /\ InObserve(t, "max_load")
    /\ IF U64Less(This(t).max, ObservedV(t))
       THEN /\ pc' = [pc EXCEPT ![t] = "max_cas"]
            /\ req' = [req EXCEPT ![t].current = This(t).max]
       ELSE Return(t)
    /\ UNCHANGED <<objs, ret>>
    /\ RegistryUntouched

\* updateMax: atomic.CompareAndSwapUint64(&h.max, current, v)
updateMaxCAS(t) ==
    /\ InObserve(t, "max_cas")
    /\ IF This(t).max = req[t].current
       THEN /\ objs' = Store(objs, Self(t), [This(t) EXCEPT !.max = ObservedV(t)])
            /\ Return(t)
       ELSE /\ pc' = [pc EXCEPT ![t] = "max_load"]
            /\ UNCHANGED <<objs, req>>
    /\ UNCHANGED ret
    /\ RegistryUntouched

PrimNext ==
    \/ \E t \in Threads : counterInc(t)
    \/ \E t \in Threads : counterAdd(t)
    \/ \E t \in Threads : gaugeSet(t)
    \/ \E t \in Threads : gaugeAdd(t)
    \/ \E t \in Threads : gaugeInc(t)
    \/ \E t \in Threads : gaugeDec(t)
    \/ \E t \in Threads : With(t)
    \/ \E t \in Threads : ObserveCount(t)
    \/ \E t \in Threads : ObserveSum(t)
    \/ \E t \in Threads : ObserveBucket(t)
    \/ \E t \in Threads : updateMinLoad(t)
    \/ \E t \in Threads : updateMinCAS(t)
    \/ \E t \in Threads : updateMaxLoad(t)
    \/ \E t \in Threads : updateMaxCAS(t)

PrimSpec == PrimInit /\ [][PrimNext]_vars

\* no goroutine is inside a call
Quiescent == \A t \in Threads : pc[t] = "idle"
\* every goroutine has run its program to the end
Finished == Quiescent /\ \A t \in Threads : req[t].i = Len(req[t].prog)

\* ====================================================================
\* The registry next to the primitives: one goroutine calls With, Inc and
\* Each on the primitive it was handed while another looks primitives up.
\* ====================================================================

\* what Each hands to its caller: the primitives it called fn with and the
\* number of times it called fn
Visited(ids, n) == [err |-> "nil", m |-> NoId, visited |-> ids, calls |-> n]

\* an Each that leaves out the entries whose expiry has passed
Each_SkipsExpired(t) ==
    /\ Calls(t, "Each")
    /\ ret' = Visited({metrics[k].metric : k \in DOMAIN metrics \ ExpiredKeys(metrics, now)},
                      Cardinality(DOMAIN metrics \ ExpiredKeys(metrics, now)))
    /\ Return(t)
    /\ UNCHANGED objs
    /\ RegistryUntouched

\* defaultRegistry.Each: fn(entry.metric) for every entry, under the read lock
Each(t) ==
    /\ Calls(t, "Each")
    /\ ret' = Visited({metrics[k].metric : k \in DOMAIN metrics},
                      Cardinality(DOMAIN metrics))
    /\ Return(t)
    /\ UNCHANGED objs
    /\ RegistryUntouched

Caller == 1
Looker == 2

EachCall == Call("Each", 1, F64(0, 0), EmptyTags)
IncCalls == {Call("Inc", n, F64(0, 0), EmptyTags) : n \in {1, 2}}
ViewPrograms(kind) ==
    IF kind \in {TypeCounter, TypeGauge}
    THEN Programs(WithCalls \cup {EachCall} \cup IncCalls)
    ELSE Programs(WithCalls \cup {EachCall})

\* the lookups of the second goroutine: each kind under the one name
ViewInputs ==
    [kind : Types, Name : {"a"}, Tags : {EmptyTags}, Buckets : {<<>>}, TTL : {0}]

\* the registry holds one primitive; the caller has it and a program, the
\* looker has made no call yet
ViewInit ==
    \E kind \in Types : \E p \in ViewPrograms(kind) :
       /\ now = 0
       /\ objs = Alloc([k \in {} |-> <<>>], KeyOf(kind, "a"),
                       factory(PrimOptions(kind, <<>>)).m)
       /\ metrics = MapSet([k \in {} |-> 0], KeyOf(kind, "a"),
                           newEntry(<<KeyOf(kind, "a"), 1>>, PrimOptions(kind, <<>>)))
       /\ cardinality = MapSet([n \in {} |-> 0], "a", 1)
       /\ cleanupInterval = 1
       /\ cancelled = FALSE
       /\ loop = "running"
       /\ pc = [t \in Threads |-> "idle"]
       /\ req = [t \in Threads |->
                   IF t = Caller THEN Goroutine(KeyOf(kind, "a"), p) ELSE NoReq]
       /\ ret = Returned(<<KeyOf(kind, "a"), 1>>)
       /\ om = NoOm
       /\ mu = Unlocked

ViewNext ==
    \/ \E opts \in ViewInputs : lookupFast(Looker, opts)
    \/ lookupSlow(Looker)
    \/ With(Caller)
    \/ Each(Caller)
    \/ counterInc(Caller)
    \/ gaugeInc(Caller)

ViewSpec == ViewInit /\ [][ViewNext]_vars

\* the primitive the registry made, and the one derived from it
PrimKey == req[1].key
Original == Deref(objs, <<PrimKey, 1>>)
HasDerived == Len(objs[PrimKey]) >= 2
Derived == Deref(objs, <<PrimKey, 2>>)

\* the calls goroutine t has finished, as a set of positions of its program
Done(t) == 1..req[t].i

\* every call of t's program is an Inc of the registered primitive
OnlyIncs(t) ==
    \A k \in 1..Len(req[t].prog) : req[t].prog[k].op = "Inc" /\ req[t].prog[k].on = 1

RECURSIVE TotalCalls(_)
TotalCalls(S) ==
    IF S = {} THEN 0
    ELSE LET t == CHOOSE x \in S : TRUE IN Len(req[t].prog) + TotalCalls(S \ {t})

\* C11: when goroutines that only call Inc on one counter have all run to
\* the end, in whatever interleaving, the counter's value is the number of
\* their calls: N goroutines of M calls each leave N * M.
C11_NoLostIncrement ==
    (/\ Finished
     /\ Original.metricType = TypeCounter
     /\ \A t \in Threads : OnlyIncs(t))
    => Original.value = U64(TotalCalls(Threads))

\* both goroutines of TestCounterConcurrency have made all their calls
C11_Witness ==
    /\ Finished
    /\ Original.metricType = TypeCounter
    /\ \A t \in Threads : req[t].prog = IncProgram
    /\ Original.value = U64(Cardinality(Threads) * IncrementsPerGoroutine)

\* the counters on the heap
Counters == {id \in Allocated(objs) : Deref(objs, id).metricType = TypeCounter}

\* goroutine t returns from a call of Add in this step
AddStep(t) == Calls(t, "Add") /\ req'[t].i = req[t].i + 1

\* C12: no step makes the value of a counter smaller; an Add of a delta that
\* is not positive leaves the value as it is, and an Add of a positive delta
\* makes it the old value plus the integer part of the delta.
C12_NeverDecreases ==
    [][/\ \A id \in Counters :
             ~U64Less(Deref(objs', id).value, Deref(objs, id).value)
       /\ \A t \in Threads :
             (AddStep(t) /\ Is(t, TypeCounter)) =>
                IF Positive(NextCall(t).arg)
                THEN /\ ~U64Less(Deref(objs', Self(t)).value, This(t).value)
                     /\ Deref(objs', Self(t)).value.lo =
                           This(t).value.lo + NextCall(t).arg.milli \div 1000
                ELSE Deref(objs', Self(t)).value = This(t).value]_vars

\* the histograms on the heap, those of timers included
Histograms ==
    {id \in Allocated(objs) :
        Deref(objs, id).metricType \in {TypeHistogram, TypeTimer}}

RECURSIVE SumU64(_)
SumU64(words) ==
    IF Len(words) = 0 THEN U64(0)
    ELSE AddUint64(words[1], SumU64(Tail(words)))

\* C13: whenever no goroutine is inside a call, the bucket counts of every
\* histogram add up to its count.
C13_BucketsSumToCount ==
    Quiescent =>
       \A id \in Histograms : SumU64(Deref(objs, id).buckets) = Deref(objs, id).count

\* three observations have returned and fell into two buckets
C13_Witness ==
    /\ Quiescent
    /\ Original.metricType = TypeHistogram
    /\ Original.count = U64(3)
    /\ Original.buckets[1] = U64(2)
    /\ Original.buckets[2] = U64(1)

\* the integer parts of the values whose observation on histogram id has
\* returned
ObservedOn(id) ==
    UNION {{ToUint64(req[t].prog[k].arg) :
               k \in {j \in Done(t) :
                         /\ req[t].prog[j].op \in {"Observe", "Record"}
                         /\ req[t].prog[j].on = id[2]}} : t \in Threads}

\* C14: whenever no goroutine is inside a call, a histogram with count > 0
\* has min <= v <= max for the integer part v of every value observed on it.
C14_MinMaxBound ==
    Quiescent =>
       \A id \in Histograms :
          U64Less(U64(0), Deref(objs, id).count) =>
             \A v \in ObservedOn(id) :
                /\ ~U64Less(v, Deref(objs, id).min)
                /\ ~U64Less(Deref(objs, id).max, v)

\* the calls of all programs, as (goroutine, position) pairs
AllCalls == {x \in Threads \X (1..(MaxCalls + IncrementsPerGoroutine)) :
               x[2] <= Len(req[x[1]].prog)}
CallAt(x) == req[x[1]].prog[x[2]]

\* the programs together observe each of the integers 1..n once on the
\* registered histogram and do nothing else
ObserveEachOnce(n) ==
    /\ Cardinality(AllCalls) = n
    /\ \A x \in AllCalls : CallAt(x).op = "Observe" /\ CallAt(x).on = 1
    /\ {CallAt(x).arg : x \in AllCalls} = {F64(0, 1000 * i) : i \in 1..n}

\* C15: when the goroutines have observed each of 1..N once between them,
\* in whatever split and interleaving, count = N, sum = N(N+1)/2, min = 1
\* and max = N.
C15_OneToN ==
    \A n \in 1..(2 * (MaxCalls + IncrementsPerGoroutine)) :
       (Finished /\ Original.metricType = TypeHistogram /\ ObserveEachOnce(n))
       => /\ Original.count = U64(n)
          /\ Original.sum = U64((n * (n + 1)) \div 2)
          /\ Original.min = U64(1)
          /\ Original.max = U64(n)

\* 1, 2 and 3 have been observed, the smallest of them by the second
\* goroutine
C15_Witness ==
    /\ Finished
    /\ Original.metricType = TypeHistogram
    /\ ObserveEachOnce(3)
    /\ req[2].prog[1].arg = F64(0, 1000)
    /\ Original.min = U64(1)
    /\ Original.max = U64(3)

\* goroutine t increments a bucket in this step
BucketStep(t) == pc[t] = "bucket" /\ pc'[t] = "min_load"

\* the 0-based index of the first boundary >= value, Len(boundaries) if
\* the value exceeds them all
FirstAtLeast(boundaries, value) ==
    IF \E i \in 1..Len(boundaries) : boundaries[i] >= value
    THEN (CHOOSE i \in 1..Len(boundaries) :
             /\ boundaries[i] >= value
             /\ \A j \in 1..(i - 1) : boundaries[j] < value) - 1
    ELSE Len(boundaries)

\* C16: an Observe of a histogram with strictly ascending boundaries adds 1
\* to the bucket whose index is that of the first boundary >= the value, or
\* to the last one when the value exceeds every boundary, and to no other.
C16_BucketOfValue ==
    [][\A t \in Threads :
          BucketStep(t) =>
             LET e == FirstAtLeast(This(t).boundaries, ObservedValue(t).milli)
             IN \A i \in 1..Len(This(t).buckets) :
                   Deref(objs', Self(t)).buckets[i] =
                      IF i = e + 1
                      THEN AddUint64(This(t).buckets[i], U64(1))
                      ELSE This(t).buckets[i]]_vars

\* with the boundaries 1, 5, 10 the value 5 has been counted at index 1
C16_Witness ==
    /\ Finished
    /\ Original.boundaries = <<1000, 5000, 10000>>
    /\ req[1].prog = <<Call("Observe", 1, F64(0, 5000), EmptyTags)>>
    /\ Original.buckets = <<U64(0), U64(1), U64(0), U64(0)>>

\* goroutine t returns from With in this step
WithStep(t) == Calls(t, "With") /\ req'[t].i = req[t].i + 1

\* C17: With of a histogram or a timer returns one with zeroed state, and an
\* Observe of the derived one adds 1 to the bucket that a fresh histogram
\* with the original's boundaries would count the value in.
C17_DerivedSameBuckets ==
    [][\A t \in Threads :
          /\ (WithStep(t) /\ This(t).metricType \in {TypeHistogram, TypeTimer})
             => /\ Deref(objs', ret'.m).count = U64(0)
                /\ Deref(objs', ret'.m).sum = U64(0)
                /\ Deref(objs', ret'.m).buckets = Zeros(Len(This(t).buckets))
          /\ (BucketStep(t) /\ Self(t)[2] = 2)
             => LET e == findBucket(Original.boundaries, ObservedValue(t).milli)
                IN Deref(objs', Self(t)).buckets[e + 1] =
                      AddUint64(This(t).buckets[e + 1], U64(1))]_vars

\* goroutine t takes a step
StepOf(t) == pc'[t] # pc[t] \/ req'[t] # req[t]

\* the primitive has the state of a new one
Zeroed(m) ==
    CASE m.metricType = TypeCounter -> m.value = U64(0)
      [] m.metricType = TypeGauge -> m.value = 0
      [] OTHER -> /\ m.count = U64(0) /\ m.sum = U64(0)
                  /\ m.min = U64(0) /\ m.max = U64(0)
                  /\ \A i \in 1..Len(m.buckets) : m.buckets[i] = U64(0)

\* C18: With leaves its receiver as it is, value and tags, and returns a new
\* primitive that starts zeroed whatever the receiver's value is; a step of
\* a call on one primitive changes no other primitive.
C18_WithIndependent ==
    [][\A t \in Threads :
          /\ WithStep(t) =>
                /\ Deref(objs', Self(t)) = This(t)
                /\ ret'.m \notin Allocated(objs)
                /\ ret'.m \in Allocated(objs')
                /\ Zeroed(Deref(objs', ret'.m))
          /\ StepOf(t) =>
                \A id \in Allocated(objs) \ {Self(t)} :
                   Deref(objs', id) = Deref(objs, id)]_vars

\* a counter was derived from one whose value was 2
C18_Witness ==
    /\ Finished
    /\ HasDerived
    /\ req[2].prog = <<>>
    /\ req[1].prog[1].op = "Add"
    /\ req[1].prog[2].op = "With"
    /\ Original.value = U64(2)
    /\ Derived.value = U64(0)

\* goroutine t returns from Each in this step
EachStep(t) == Calls(t, "Each") /\ req'[t].i = req[t].i + 1

\* the primitives the registry holds
Registered == {metrics[k].metric : k \in DOMAIN metrics}

\* the primitives that With has derived from the caller's primitive
DerivedIds == {<<PrimKey, n>> : n \in 2..Len(objs[PrimKey])}

\* C19: With changes neither the identity map nor the cardinality table and
\* what it returns is not registered; Each visits the registered primitives
\* and never a derived one; a lookup of the kind and name of a primitive
\* that has a derived one returns the registered primitive.
C19_WithOutsideRegistry ==
    [][/\ WithStep(Caller) =>
             /\ UNCHANGED <<metrics, cardinality>>
             /\ ret'.m \notin Registered'
       /\ EachStep(Caller) =>
             /\ ret'.visited = Registered
             /\ ret'.visited \cap DerivedIds = {}
       /\ (FastReturn /\ HasDerived) =>
             \A opts \in ViewInputs :
                (KeyOf(opts.kind, opts.Name) = PrimKey /\ FastStep(Looker, opts))
                => /\ ret' = Returned(<<PrimKey, 1>>)
                   /\ ret'.m \notin DerivedIds
                   /\ UNCHANGED <<metrics, cardinality, objs>>]_vars

\* after a With the caller's Each has visited only the registered primitive,
\* and the looker has been handed that primitive too
C19_Witness ==
    /\ HasDerived
    /\ req[Caller].i = 2
    /\ req[Caller].prog[1].op = "With"
    /\ req[Caller].prog[2].op = "Each"
    /\ ret = Returned(<<PrimKey, 1>>)
    /\ Cardinality(DOMAIN metrics) = 1

\* goroutine t returns from a lookup in this step, called with opts
LookupReturn(t, opts) ==
    \/ FastStep(t, opts)
    \/ SlowStep(t) /\ req[t] = opts

\* C20: the entries of the registry are keyed by kind and name: every entry
\* holds a primitive of the kind and name of its key, so a counter and a
\* gauge of one name are two entries; Each visits every entry; a lookup
\* returns a primitive of the kind it was called for and replaces no entry.
C20_KeyedByKindAndName ==
    /\ [](\A k \in DOMAIN metrics :
             k = KeyOf(Deref(objs, metrics[k].metric).metricType,
                       Deref(objs, metrics[k].metric).name))
    /\ [][/\ EachStep(Caller) => ret'.visited = Registered
          /\ \A k \in DOMAIN metrics :
                k \in DOMAIN metrics' /\ metrics'[k] = metrics[k]
          /\ (ret' # ret /\ pc'[Caller] = pc[Caller] /\ req'[Caller] = req[Caller]) =>
                \A opts \in ViewInputs :
                   (LookupReturn(Looker, opts) /\ ret'.err = "nil") =>
                      /\ Deref(objs', ret'.m).metricType = opts.kind
                      /\ Deref(objs', ret'.m).name = opts.Name
                      /\ metrics'[KeyOf(opts.kind, opts.Name)].metric = ret'.m]_vars

\* a counter and a gauge are registered under the name "a" and Each has
\* visited both
C20_Witness ==
    /\ {KeyOf(TypeCounter, "a"), KeyOf(TypeGauge, "a")} \subseteq DOMAIN metrics
    /\ metrics[KeyOf(TypeCounter, "a")].metric # metrics[KeyOf(TypeGauge, "a")].metric
    /\ "visited" \in DOMAIN ret
    /\ ret.visited = {metrics[KeyOf(TypeCounter, "a")].metric,
                      metrics[KeyOf(TypeGauge, "a")].metric}

\* ====================================================================
\* The registry with expiring entries: one goroutine calls Each while
\* another registers metrics with and without a TTL, the clock advances,
\* metrics are unregistered and swept and the registry is closed.
\* ====================================================================

EachProgram == [k \in 1..MaxCalls |-> EachCall]

\* the lookups of the second goroutine: a counter and a gauge of one name
\* that expire, and a counter of another name that does not
TTLInputs ==
    [kind : {TypeCounter, TypeGauge}, Name : {"a"}, Tags : {EmptyTags},
     Buckets : {<<>>}, TTL : {1}]
    \cup [kind : {TypeCounter}, Name : {"b"}, Tags : {EmptyTags},
          Buckets : {<<>>}, TTL : {0}]

\* NewRegistry(tagConfig, cleanupInterval): the sweep goroutine is started
\* only for a positive interval
TTLInit ==
    /\ metrics = [k \in {} |-> 0]
    /\ cardinality = [n \in {} |-> 0]
    /\ objs = [k \in {} |-> <<>>]
    /\ now = 0
    /\ cleanupInterval \in {0, 1}
    /\ cancelled = FALSE
    /\ loop = IF cleanupInterval > 0 THEN "running" ELSE "none"
    /\ pc = [t \in Threads |-> "idle"]
    /\ req = [t \in Threads |->
                IF t = Caller THEN Goroutine("", EachProgram) ELSE NoReq]
    /\ ret = Panicked("none")
    /\ om = NoOm
    /\ mu = Unlocked

TTLNext ==
    \/ \E opts \in TTLInputs : lookupFast(Looker, opts)
    \/ lookupSlow(Looker)
    \/ Each(Caller)
    \/ \E name \in Names : Unregister(name)
    \/ ManualCleanup
    \/ cleanupLoopTick
    \/ cleanupLoopDone
    \/ Close
    \/ Tick

TTLSpec == TTLInit /\ [][TTLNext]_vars

\* the entries that hold a primitive of the name
EntriesOf(m, heap, name) == {k \in DOMAIN m : Deref(heap, m[k].metric).name = name}

\* C21: Unregister(name) removes every entry of every kind under the name
\* and no entry under another name; on a registry with no entry of the name
\* it deletes nothing, so a second Unregister(name) changes nothing.
C21_UnregisterExact ==
    /\ [](\A name \in Names :
             /\ UnregisterKeys(metrics, name) = EntriesOf(metrics, objs, name)
             /\ EntriesOf(metrics, objs, name) = {} =>
                   MapDelete(metrics, UnregisterKeys(metrics, name)) = metrics)
    /\ [][\A name \in Names : Unregister(name) =>
             /\ EntriesOf(metrics', objs', name) = {}
             /\ UnregisterKeys(metrics', name) = {}
             /\ \A k \in DOMAIN metrics \ EntriesOf(metrics, objs, name) :
                   k \in DOMAIN metrics' /\ metrics'[k] = metrics[k]
             /\ UNCHANGED <<objs, now, cancelled, loop>>]_vars

\* a counter and a gauge of name "a" were registered and both are gone, not
\* by a sweep, while the metric of name "b" is still registered
C21_Witness ==
    /\ CardOf(cardinality, "a") = 2
    /\ EntriesOf(metrics, objs, "a") = {}
    /\ {KeyOf(TypeCounter, "a"), KeyOf(TypeGauge, "a")} \subseteq DOMAIN objs
    /\ EntriesOf(metrics, objs, "b") # {}

\* C22: Each calls the visitor once for every entry of the identity map,
\* the entries whose expiry has passed and that no sweep has removed
\* included, and for no primitive that is not in the map.
C22_EachVisitsEveryEntry ==
    [][EachStep(Caller) =>
          /\ ret'.visited = Registered
          /\ ret'.calls = Cardinality(DOMAIN metrics)
          /\ ret'.calls = Cardinality(ret'.visited)
          /\ \A k \in ExpiredKeys(metrics, now) : metrics[k].metric \in ret'.visited
          /\ ret'.visited \subseteq {metrics'[k].metric : k \in DOMAIN metrics'}]_vars

\* Each has visited two entries, one of which had expired before the other
\* was registered, so the visit came after the expiry
C22_Witness ==
    /\ "visited" \in DOMAIN ret
    /\ \E k1, k2 \in DOMAIN metrics :
          /\ metrics[k1].ttl > 0 /\ metrics[k2].ttl > 0
          /\ metrics[k2].expiresAt - metrics[k2].ttl > metrics[k1].expiresAt
          /\ {metrics[k1].metric, metrics[k2].metric} \subseteq ret.visited

\* ====================================================================
\* Package operational: RecordError, RecordOperation and the builder's
\* RecordWithContext, called by two goroutines on one operationalMetrics
\* value over a registry made by NewDefaultRegistry.
\* ====================================================================

\* the scratch maps New of the pool makes while the pool has a map to give
MaxMaps == 2

\* DefaultTagValidationConfig()
DefaultConfig ==
    [MaxKeys |-> 10, MaxKeyLength |-> 100, MaxValueLength |-> 200,
     MaxCardinality |-> 1000, DisallowedKeys |-> {}]

\* ValidateTags(tags, config)
ValidateTagsWith(tags, config) ==
    IF Cardinality(DOMAIN tags) > config.MaxKeys THEN "too many tags"
    ELSE IF \E k \in DOMAIN tags : Len(k) > config.MaxKeyLength THEN "key too long"
    ELSE IF \E k \in DOMAIN tags : Len(tags[k]) > config.MaxValueLength
    THEN "value too long"
    ELSE IF \E k \in DOMAIN tags : k \in config.DisallowedKeys THEN "not allowed"
    ELSE IF \E k \in DOMAIN tags : k = "" THEN "empty key"
    ELSE "nil"

\* a call of the package: RecordError(operation, x, y),
\* RecordOperation(operation, x, duration) or
\* RecordWithContext(operation, x, duration, context)
Record(o, operation, x, y, d, ctx) ==
    [op |-> o, operation |-> operation, x |-> x, y |-> y, duration |-> d,
     context |-> ctx]
NoCall == Record("", "", "", "", 0, EmptyTags)

ErrorCall == Record("RecordError", "op", "timeout", "net", 0, EmptyTags)
OperationCalls ==
    {Record("RecordOperation", "op", st, "", 1, EmptyTags) : st \in {"success", "error"}}
Contexts ==
    {EmptyTags, [k \in {"provider"} |-> "password"],
     [k \in {"provider", "tier"} |-> IF k = "tier" THEN "premium" ELSE "password"]}
ContextCalls == {Record("RecordWithContext", "op", "success", "", 2, c) : c \in Contexts}

OpPrograms1 ==
    SeqsUpTo({ErrorCall} \cup OperationCalls, MaxCalls)
    \cup {<<c>> : c \in ContextCalls}
OpPrograms2 == {<<>>, <<ErrorCall>>, <<Record("RecordOperation", "op", "success", "", 1, EmptyTags)>>}

\* the locals of a goroutine that runs program p: the call it is in, the
\* context keys RecordWithContext has still to range over, the calls of
\* RecordOperation made on behalf of the running call, the scratch maps it
\* holds (0: none) and the primitives it has resolved
OpGoroutine(p) ==
    [prog |-> p, i |-> 0, call |-> NoCall, builder |-> FALSE, left |-> {},
     made |-> <<>>, tags |-> 0, timerTags |-> 0, counterTags |-> 0,
     counter |-> NoId, timer |-> NoId]

\* metric.NewDefaultRegistry() and operational.New(registry)
OpInit ==
    \E p1 \in OpPrograms1 : \E p2 \in OpPrograms2 :
       /\ metrics = [k \in {} |-> 0]
       /\ cardinality = [n \in {} |-> 0]
       /\ objs = [k \in {} |-> <<>>]
       /\ now = 0
       /\ cleanupInterval = 1
       /\ cancelled = FALSE
       /\ loop = "running"
       /\ pc = [t \in Threads |-> "idle"]
       /\ req = [t \in Threads |-> OpGoroutine(IF t = 1 THEN p1 ELSE p2)]
       /\ ret = Panicked("none")
       /\ om = NoOm
       /\ mu = Unlocked

\* ------------------------------------------------------ the scratch maps
\* m[k] of a Go map: the zero value for a missing key
TagOf(m, k) == IF k \in DOMAIN m THEN m[k] ELSE ""

\* m[k] = v for every k of new
Assign(m, new) ==
    [k \in DOMAIN m \cup DOMAIN new |-> IF k \in DOMAIN new THEN new[k] ELSE m[k]]

\* a clearOperationalTags that deletes nothing
clearOperationalTags_Keeps(m) == m

\* clearOperationalTags: delete(m, k) for every key
clearOperationalTags(m) == [k \in {} |-> ""]

\* a Get that leaves the map it returns in the pool
PoolAfterGet_Keeps(pool, id) == pool

\* sync.Pool.Get removes the item it returns from the pool
PoolAfterGet(pool, id) == pool \ {id}

\* what operationalTagPool.Get() may return: a pooled map, or a map made by
\* New when the pool is empty or did not offer the goroutine one of its maps
Gettable ==
    om.pool \cup (IF om.pool = {} \/ Len(om.maps) < MaxMaps
                  THEN {Len(om.maps) + 1} ELSE {})

AfterGet(id) ==
    [om EXCEPT !.pool = PoolAfterGet(@, id),
               !.maps = IF id > Len(@) THEN Append(@, EmptyTags) ELSE @]

\* defer operationalTagPool.Put(clearOperationalTags(tags)) evaluates its
\* argument when the defer statement runs, so the map is cleared here, before
\* the assignments that fill it; Put runs when the function returns
DeferPutAndFill(id, new) ==
    [om EXCEPT !.maps[id] = Assign(clearOperationalTags(@), new)]

\* the deferred operationalTagPool.Put(tags)
AfterPut(id) == [om EXCEPT !.pool = @ \cup {id}]

OpRegistryUntouched ==
    UNCHANGED <<metrics, cardinality, objs, now, mu, cleanupInterval, cancelled, loop>>

\* ---------------------------------------- the registry under om.mu.Lock()
\* a lookup that registers a new primitive whether the key is registered or not
lookup_NoProbe(opts) ==
    [metrics |-> MapSet(metrics, KeyOf(opts.kind, opts.Name),
                        newEntry(NextId(objs, KeyOf(opts.kind, opts.Name)), opts)),
     cardinality |-> MapSet(cardinality, opts.Name, CardOf(cardinality, opts.Name) + 1),
     objs |-> Alloc(objs, KeyOf(opts.kind, opts.Name), factory(opts).m),
     m |-> NextId(objs, KeyOf(opts.kind, opts.Name))]

\* defaultRegistry.lookup, run to its end: the callers hold om.mu and no other
\* goroutine uses the registry, so its two halves are not interleaved
lookup(opts) ==
    IF Probe(metrics, KeyOf(opts.kind, opts.Name))
    THEN [metrics |-> metrics, cardinality |-> cardinality, objs |-> objs,
          m |-> metrics[KeyOf(opts.kind, opts.Name)].metric]
    ELSE [metrics |-> MapSet(metrics, KeyOf(opts.kind, opts.Name),
                             newEntry(NextId(objs, KeyOf(opts.kind, opts.Name)), opts)),
          cardinality |-> MapSet(cardinality, opts.Name,
                                 CardOf(cardinality, opts.Name) + 1),
          objs |-> Alloc(objs, KeyOf(opts.kind, opts.Name), factory(opts).m),
          m |-> NextId(objs, KeyOf(opts.kind, opts.Name))]

\* the lookup returns instead of panicking
LookupReturns(opts) ==
    /\ ValidateTagsWith(opts.Tags, DefaultConfig) = "nil"
    /\ \/ Probe(metrics, KeyOf(opts.kind, opts.Name))
       \/ /\ CardOf(cardinality, opts.Name) < DefaultConfig.MaxCardinality
          /\ factory(opts).err = "nil"

\* metric.Options{Name: name, Tags: finalTags}
OpOptions(kind, name, finalTags) ==
    [kind |-> kind, Name |-> name, Tags |-> finalTags, Buckets |-> <<>>, TTL |-> 0]

\* the first half of a getOrCreate...WithTags: the probe of a cache under
\* om.mu.RLock()
getOrCreateFast(t, at, cache, key, slot, hit, miss) ==
    /\ pc[t] = at
    /\ IF key \in DOMAIN om[cache]
       THEN /\ req' = [req EXCEPT ![t][slot] = om[cache][key]]
            /\ pc' = [pc EXCEPT ![t] = hit]
       ELSE /\ pc' = [pc EXCEPT ![t] = miss]
            /\ UNCHANGED req
    /\ UNCHANGED <<om, ret>>
    /\ OpRegistryUntouched

\* the second half: om.mu.Lock(), the second probe, registry.Counter or
\* registry.Timer with a copy of the tags, the store in the cache
getOrCreateSlow(t, at, cache, key, slot, opts, to) ==
    /\ pc[t] = at
    /\ IF key \in DOMAIN om[cache]
       THEN /\ req' = [req EXCEPT ![t][slot] = om[cache][key]]
            /\ UNCHANGED <<om, metrics, cardinality, objs>>
       ELSE /\ LookupReturns(opts)
            /\ metrics' = lookup(opts).metrics
            /\ cardinality' = lookup(opts).cardinality
            /\ objs' = lookup(opts).objs
            /\ om' = [om EXCEPT ![cache] = MapSet(@, key, lookup(opts).m)]
            /\ req' = [req EXCEPT ![t][slot] = lookup(opts).m]
    /\ pc' = [pc EXCEPT ![t] = to]
    /\ UNCHANGED <<now, mu, cleanupInterval, cancelled, loop, ret>>

\* ------------------------------------------------------------ RecordError
\* RecordError up to the defer: tags := operationalTagPool.Get()
RecordError(t) ==
    /\ Calls(t, "RecordError")
    /\ \E id \in Gettable :
          /\ om' = AfterGet(id)
          /\ req' = [req EXCEPT ![t].call = NextCall(t), ![t].tags = id,
                                ![t].made = <<>>]
    /\ pc' = [pc EXCEPT ![t] = "e_fill"]
    /\ UNCHANGED ret
    /\ OpRegistryUntouched

\* the defer statement and the three assignments to tags
errorFill(t) ==
    /\ pc[t] = "e_fill"
    /\ om' = DeferPutAndFill(req[t].tags,
                 [k \in {"operation", "error_type", "error_category"} |->
                    CASE k = "operation" -> req[t].call.operation
                      [] k = "error_type" -> req[t].call.x
                      [] k = "error_category" -> req[t].call.y])
    /\ pc' = [pc EXCEPT ![t] = "e_fast"]
    /\ UNCHANGED <<req, ret>>
    /\ OpRegistryUntouched

\* fmt.Sprintf("error:%s:%s:%s", operation, tags["error_type"], tags["error_category"])
ErrorKey(operation, tags) ==
    "error:" \o operation \o ":" \o TagOf(tags, "error_type") \o ":"
    \o TagOf(tags, "error_category")

getOrCreateErrorCounterWithTagsFast(t) ==
    getOrCreateFast(t, "e_fast", "errorCounters",
                    ErrorKey(req[t].call.operation, om.maps[req[t].tags]),
                    "counter", "e_inc", "e_slow")

getOrCreateErrorCounterWithTagsSlow(t) ==
    getOrCreateSlow(t, "e_slow", "errorCounters",
                    ErrorKey(req[t].call.operation, om.maps[req[t].tags]),
                    "counter",
                    OpOptions(TypeCounter, req[t].call.operation \o "_errors_total",
                              om.maps[req[t].tags]),
                    "e_inc")

\* counter.Inc(): atomic.AddUint64(&c.value, 1)
errorInc(t) ==
    /\ pc[t] = "e_inc"
    /\ objs' = Store(objs, req[t].counter,
                     [Deref(objs, req[t].counter) EXCEPT !.value = AddUint64(@, U64(1))])
    /\ pc' = [pc EXCEPT ![t] = "e_put"]
    /\ UNCHANGED <<metrics, cardinality, now, mu, cleanupInterval, cancelled, loop,
                   req, ret, om>>

\* RecordError returns: the deferred Put
errorPut(t) ==
    /\ pc[t] = "e_put"
    /\ om' = AfterPut(req[t].tags)
    /\ req' = [req EXCEPT ![t].tags = 0, ![t].counter = NoId, ![t].call = NoCall,
                          ![t].i = @ + 1]
    /\ pc' = [pc EXCEPT ![t] = "idle"]
    /\ UNCHANGED ret
    /\ OpRegistryUntouched

\* -------------------------------------------------------- RecordOperation
\* what b.om.RecordOperation(operation, status, duration) is called with
Made(c) == [operation |-> c.operation, status |-> c.x, duration |-> c.duration]

\* RecordOperation up to its first defer, called by the program or by the
\* builder: timerTags := operationalTagPool.Get()
RecordOperation(t) ==
    /\ \/ Calls(t, "RecordOperation")
       \/ pc[t] = "o_call"
    /\ \E id \in Gettable :
          /\ om' = AfterGet(id)
          /\ req' = IF pc[t] = "o_call"
                    THEN [req EXCEPT ![t].timerTags = id,
                                     ![t].made = Append(@, Made(req[t].call))]
                    ELSE [req EXCEPT ![t].timerTags = id, ![t].call = NextCall(t),
                                     ![t].made = <<Made(NextCall(t))>>]
    /\ pc' = [pc EXCEPT ![t] = "o_fill_t"]
    /\ UNCHANGED ret
    /\ OpRegistryUntouched

\* the first defer statement and timerTags["operation"] = operation
operationFillTimerTags(t) ==
    /\ pc[t] = "o_fill_t"
    /\ om' = DeferPutAndFill(req[t].timerTags,
                             [k \in {"operation"} |-> req[t].call.operation])
    /\ pc' = [pc EXCEPT ![t] = "o_tfast"]
    /\ UNCHANGED <<req, ret>>
    /\ OpRegistryUntouched

\* fmt.Sprintf("timer:%s", operation)
TimerKey(operation) == "timer:" \o operation

getOrCreateOperationTimerWithTagsFast(t) ==
    getOrCreateFast(t, "o_tfast", "operationTimers", TimerKey(req[t].call.operation),
                    "timer", "o_record", "o_tslow")

getOrCreateOperationTimerWithTagsSlow(t) ==
    getOrCreateSlow(t, "o_tslow", "operationTimers", TimerKey(req[t].call.operation),
                    "timer",
                    OpOptions(TypeTimer, req[t].call.operation \o "_duration",
                              om.maps[req[t].timerTags]),
                    "o_record")

\* histogramImpl.Observe(value) run to its end on h: count, sum, bucket, min
\* and max (its interleavings with another Observe are those of PrimSpec)
Observed(h, value) ==
    [h EXCEPT !.count = AddUint64(@, U64(1)),
              !.sum = AddUint64(@, ToUint64(value)),
              !.buckets[findBucket(h.boundaries, value.milli) + 1] =
                  AddUint64(@, U64(1)),
              !.min = IF @ = U64(0) \/ U64Less(ToUint64(value), @)
                      THEN ToUint64(value) ELSE @,
              !.max = IF U64Less(@, ToUint64(value)) THEN ToUint64(value) ELSE @]

\* timer.Record(duration): Observe(float64(d.Nanoseconds()))
operationRecord(t) ==
    /\ pc[t] = "o_record"
    /\ objs' = Store(objs, req[t].timer,
                     Observed(Deref(objs, req[t].timer),
                              F64(0, req[t].call.duration * 1000)))
    /\ pc' = [pc EXCEPT ![t] = "o_get_c"]
    /\ UNCHANGED <<metrics, cardinality, now, mu, cleanupInterval, cancelled, loop,
                   req, ret, om>>

\* counterTags := operationalTagPool.Get()
operationGetCounterTags(t) ==
    /\ pc[t] = "o_get_c"
    /\ \E id \in Gettable :
          /\ om' = AfterGet(id)
          /\ req' = [req EXCEPT ![t].counterTags = id]
    /\ pc' = [pc EXCEPT ![t] = "o_fill_c"]
    /\ UNCHANGED ret
    /\ OpRegistryUntouched

\* the second defer statement and the two assignments to counterTags
operationFillCounterTags(t) ==
    /\ pc[t] = "o_fill_c"
    /\ om' = DeferPutAndFill(req[t].counterTags,
                 [k \in {"operation", "status"} |->
                    IF k = "operation" THEN req[t].call.operation ELSE req[t].call.x])
    /\ pc' = [pc EXCEPT ![t] = "o_cfast"]
    /\ UNCHANGED <<req, ret>>
    /\ OpRegistryUntouched

\* fmt.Sprintf("counter:%s:%s", operation, tags["status"])
CounterKey(operation, tags) == "counter:" \o operation \o ":" \o TagOf(tags, "status")

getOrCreateOperationCounterWithTagsFast(t) ==
    getOrCreateFast(t, "o_cfast", "operationCounters",
                    CounterKey(req[t].call.operation, om.maps[req[t].counterTags]),
                    "counter", "o_inc", "o_cslow")

getOrCreateOperationCounterWithTagsSlow(t) ==
    getOrCreateSlow(t, "o_cslow", "operationCounters",
                    CounterKey(req[t].call.operation, om.maps[req[t].counterTags]),
                    "counter",
                    OpOptions(TypeCounter, req[t].call.operation \o "_total",
                              om.maps[req[t].counterTags]),
                    "o_inc")

\* counter.Inc() of RecordOperation
operationInc(t) ==
    /\ pc[t] = "o_inc"
    /\ objs' = Store(objs, req[t].counter,
                     [Deref(objs, req[t].counter) EXCEPT !.value = AddUint64(@, U64(1))])
    /\ pc' = [pc EXCEPT ![t] = "o_put_c"]
    /\ UNCHANGED <<metrics, cardinality, now, mu, cleanupInterval, cancelled, loop,
                   req, ret, om>>

\* RecordOperation returns: the deferred calls run last in, first out, so
\* counterTags is put first
operationPutCounterTags(t) ==
    /\ pc[t] = "o_put_c"
    /\ om' = AfterPut(req[t].counterTags)
    /\ req' = [req EXCEPT ![t].counterTags = 0, ![t].counter = NoId]
    /\ pc' = [pc EXCEPT ![t] = "o_put_t"]
    /\ UNCHANGED ret
    /\ OpRegistryUntouched

\* the deferred Put of timerTags; control goes back to the program, or to the
\* builder that made the call
operationPutTimerTags(t) ==
    /\ pc[t] = "o_put_t"
    /\ om' = AfterPut(req[t].timerTags)
    /\ IF req[t].builder
       THEN /\ req' = [req EXCEPT ![t].timerTags = 0, ![t].timer = NoId]
            /\ pc' = [pc EXCEPT ![t] = "b_range"]
       ELSE /\ req' = [req EXCEPT ![t].timerTags = 0, ![t].timer = NoId,
                                  ![t].call = NoCall, ![t].i = @ + 1]
            /\ pc' = [pc EXCEPT ![t] = "idle"]
    /\ UNCHANGED ret
    /\ OpRegistryUntouched

\* ------------------------------------------------------ RecordWithContext
\* fmt.Sprintf("%s_%s", operation, key) with status value and the duration
Contextual(c, key) ==
    Record("RecordOperation", c.operation \o "_" \o key, c.context[key], "",
           c.duration, EmptyTags)

\* RecordWithContext up to b.om.RecordOperation(operation, status, duration)
RecordWithContext(t) ==
    /\ Calls(t, "RecordWithContext")
    /\ req' = [req EXCEPT ![t].call = Record("RecordOperation", NextCall(t).operation,
                                             NextCall(t).x, "", NextCall(t).duration,
                                             EmptyTags),
                          ![t].builder = TRUE,
                          ![t].left = DOMAIN NextCall(t).context,
                          ![t].made = <<>>]
    /\ pc' = [pc EXCEPT ![t] = "o_call"]
    /\ UNCHANGED <<ret, om>>
    /\ OpRegistryUntouched

\* a range that ends after the first key
contextRange_FirstOnly(t) ==
    /\ pc[t] = "b_range"
    /\ IF req[t].left = {} \/ Len(req[t].made) >= 2
       THEN /\ req' = [req EXCEPT ![t].call = NoCall, ![t].builder = FALSE,
                                  ![t].left = {}, ![t].i = @ + 1]
            /\ pc' = [pc EXCEPT ![t] = "idle"]
       ELSE \E key \in req[t].left :
               /\ req' = [req EXCEPT ![t].call = Contextual(NextCall(t), key),
                                     ![t].left = @ \ {key}]
               /\ pc' = [pc EXCEPT ![t] = "o_call"]
    /\ UNCHANGED <<ret, om>>
    /\ OpRegistryUntouched

\* if len(context) == 0 { return } and for key, value := range context: the
\* range visits the keys in an order of its own, each key once
contextRange(t) ==
    /\ pc[t] = "b_range"
    /\ IF req[t].left = {}
       THEN /\ req' = [req EXCEPT ![t].call = NoCall, ![t].builder = FALSE,
                                  ![t].i = @ + 1]
            /\ pc' = [pc EXCEPT ![t] = "idle"]
       ELSE \E key \in req[t].left :
               /\ req' = [req EXCEPT ![t].call = Contextual(NextCall(t), key),
                                     ![t].left = @ \ {key}]
               /\ pc' = [pc EXCEPT ![t] = "o_call"]
    /\ UNCHANGED <<ret, om>>
    /\ OpRegistryUntouched

OpNext ==
    \/ \E t \in Threads : RecordError(t)
    \/ \E t \in Threads : errorFill(t)
    \/ \E t \in Threads : getOrCreateErrorCounterWithTagsFast(t)
    \/ \E t \in Threads : getOrCreateErrorCounterWithTagsSlow(t)
    \/ \E t \in Threads : errorInc(t)
    \/ \E t \in Threads : errorPut(t)
    \/ \E t \in Threads : RecordOperation(t)
    \/ \E t \in Threads : operationFillTimerTags(t)
    \/ \E t \in Threads : getOrCreateOperationTimerWithTagsFast(t)
    \/ \E t \in Threads : getOrCreateOperationTimerWithTagsSlow(t)
    \/ \E t \in Threads : operationRecord(t)
    \/ \E t \in Threads : operationGetCounterTags(t)
    \/ \E t \in Threads : operationFillCounterTags(t)
    \/ \E t \in Threads : getOrCreateOperationCounterWithTagsFast(t)
    \/ \E t \in Threads : getOrCreateOperationCounterWithTagsSlow(t)
    \/ \E t \in Threads : operationInc(t)
    \/ \E t \in Threads : operationPutCounterTags(t)
    \/ \E t \in Threads : operationPutTimerTags(t)
    \/ \E t \in Threads : RecordWithContext(t)
    \/ \E t \in Threads : contextRange(t)

OpSpec == OpInit /\ [][OpNext]_vars

\* every goroutine has run its program to the end
OpFinished == \A t \in Threads : pc[t] = "idle" /\ req[t].i = Len(req[t].prog)

\* the scratch maps goroutine t holds: got from the pool and not yet put back
HeldSlots == {"tags", "timerTags", "counterTags"}
Held(t) == {req[t][slot] : slot \in HeldSlots} \ {0}

\* goroutine t has got a map from the pool and not yet run the defer statement
JustGot(t, slot) ==
    \/ slot = "tags" /\ pc[t] = "e_fill"
    \/ slot = "timerTags" /\ pc[t] = "o_fill_t"
    \/ slot = "counterTags" /\ pc[t] = "o_fill_c"

\* C23: every scratch map is empty when it is put back into the pool, hence
\* every map in the pool is empty and every map RecordError or
\* RecordOperation gets from the pool is empty before the call fills it.
C23_PooledMapsEmpty ==
    /\ \A id \in om.pool : om.maps[id] = EmptyTags
    /\ \A t \in Threads : \A slot \in HeldSlots :
          JustGot(t, slot) => om.maps[req[t][slot]] = EmptyTags

\* goroutine t registers a primitive in this step, at position at of its call
Registers(t, at) == pc[t] = at /\ pc'[t] # at /\ metrics' # metrics

\* the primitive the step has registered under key
Registered_(key) == Deref(objs', metrics'[key].metric)

\* C24: every primitive RecordError or RecordOperation registers carries
\* exactly the tags of the schema, whatever calls came before it: an error
\* counter operation, error_type and error_category, an operation timer
\* operation, an operation counter operation and status, each with the value
\* of the call that registers it.
C24_SchemaTags ==
    /\ [](\A k \in DOMAIN metrics :
             LET m == Deref(objs, metrics[k].metric)
             IN /\ "operation" \in DOMAIN m.tags
                /\ m.metricType = TypeTimer =>
                      /\ DOMAIN m.tags = {"operation"}
                      /\ m.name = m.tags["operation"] \o "_duration"
                /\ m.metricType = TypeCounter =>
                      \/ /\ DOMAIN m.tags = {"operation", "error_type", "error_category"}
                         /\ m.name = m.tags["operation"] \o "_errors_total"
                      \/ /\ DOMAIN m.tags = {"operation", "status"}
                         /\ m.name = m.tags["operation"] \o "_total")
    /\ [][\A t \in Threads :
            /\ Registers(t, "e_slow") =>
                  Registered_(KeyOf(TypeCounter, req[t].call.operation \o "_errors_total")).tags
                  = [k \in {"operation", "error_type", "error_category"} |->
                       CASE k = "operation" -> req[t].call.operation
                         [] k = "error_type" -> req[t].call.x
                         [] k = "error_category" -> req[t].call.y]
            /\ Registers(t, "o_tslow") =>
                  Registered_(KeyOf(TypeTimer, req[t].call.operation \o "_duration")).tags
                  = [k \in {"operation"} |-> req[t].call.operation]
            /\ Registers(t, "o_cslow") =>
                  Registered_(KeyOf(TypeCounter, req[t].call.operation \o "_total")).tags
                  = [k \in {"operation", "status"} |->
                       IF k = "operation" THEN req[t].call.operation
                       ELSE req[t].call.x]]_vars

\* the first goroutine, alone, has recorded an error and is in a
\* RecordOperation that got the one scratch map back from the pool, with the
\* three tags of the error in it, and has registered the timer from it
C24_Witness ==
    /\ req[2].prog = <<>>
    /\ req[1].i = 1
    /\ req[1].prog[1].op = "RecordError"
    /\ pc[1] = "o_record"
    /\ Len(om.maps) = 1
    /\ req[1].timerTags = 1
    /\ KeyOf(TypeTimer, "op_duration") \in DOMAIN metrics
    /\ Deref(objs, metrics[KeyOf(TypeTimer, "op_duration")].metric).tags
       = [k \in {"operation"} |-> "op"]

\* C25: each RecordOperation(operation, status, duration) increments a
\* counter whose status tag is the status of the call, so two statuses of one
\* operation are counted in two counters.
C25_StatusTagged ==
    [][\A t \in Threads :
          (pc[t] = "o_inc" /\ pc'[t] = "o_put_c") =>
             /\ TagOf(Deref(objs, req[t].counter).tags, "status") = req[t].call.x
             /\ Deref(objs', req[t].counter).value
                = AddUint64(Deref(objs, req[t].counter).value, U64(1))]_vars

\* goroutine t returns from RecordWithContext in this step
ContextReturn(t) == pc[t] = "b_range" /\ pc'[t] = "idle"

\* the number of positions of the sequence that hold x
Occurrences(sq, x) == Cardinality({j \in 1..Len(sq) : sq[j] = x})

\* C26: RecordWithContext records the primary operation once and, for each
\* pair (key, value) of the context, once the operation named operation_key
\* with status value and the same duration: 1 + |context| records in all,
\* and the primary one alone for an empty context.
C26_OnePerContextKey ==
    [][\A t \in Threads : ContextReturn(t) =>
          LET c == NextCall(t)
          IN /\ Len(req[t].made) = 1 + Cardinality(DOMAIN c.context)
             /\ req[t].made[1] =
                   [operation |-> c.operation, status |-> c.x, duration |-> c.duration]
             /\ \A key \in DOMAIN c.context :
                   Occurrences(req[t].made,
                               [operation |-> c.operation \o "_" \o key,
                                status |-> c.context[key],
                                duration |-> c.duration]) = 1
             /\ \A j \in 1..Len(req[t].made) :
                   /\ KeyOf(TypeCounter, req[t].made[j].operation \o "_total")
                         \in DOMAIN metrics
                   /\ KeyOf(TypeTimer, req[t].made[j].operation \o "_duration")
                         \in DOMAIN metrics]_vars

\* a RecordWithContext with a context of two keys has returned after three
\* records, and the counter and the timer of each derived operation hold one
\* record
C26_Witness ==
    /\ req[1].i = 1
    /\ pc[1] = "idle"
    /\ req[1].prog[1].op = "RecordWithContext"
    /\ Cardinality(DOMAIN req[1].prog[1].context) = 2
    /\ Len(req[1].made) = 3
    /\ \A key \in {"provider", "tier"} :
          /\ Deref(objs, metrics[KeyOf(TypeCounter, "op_" \o key \o "_total")].metric).value
             = U64(1)
          /\ Deref(objs, metrics[KeyOf(TypeTimer, "op_" \o key \o "_duration")].metric).sum
             = U64(2)

\* C27: the pool never hands one scratch map to two borrowers at once: the
\* maps two goroutines hold are different, the two maps one RecordOperation
\* holds are different, and no map that is held is in the pool.
C27_ExclusiveMaps ==
    /\ \A t, u \in Threads : t # u => Held(t) \cap Held(u) = {}
    /\ \A t \in Threads :
          /\ (req[t].timerTags # 0 /\ req[t].counterTags # 0)
                => req[t].timerTags # req[t].counterTags
          /\ Held(t) \cap om.pool = {}
          /\ Held(t) \subseteq 1..Len(om.maps)

\* after an earlier call the first goroutine holds the two maps of a
\* RecordOperation while the other goroutine holds a third; no fourth map
\* was made, so a map of the earlier call is in use again
C27_Witness ==
    /\ req[1].i >= 1
    /\ req[1].timerTags # 0
    /\ req[1].counterTags # 0
    /\ Held(2) # {}
    /\ Len(om.maps) = 3

\* the counter increments and the timer records the programs make on the
\* primitive of the name
RECURSIVE ExpectedOn(_, _, _)
ExpectedOn(prog, kind, name) ==
    IF prog = <<>> THEN 0
    ELSE LET c == Head(prog)
             operations ==
                IF c.op = "RecordWithContext"
                THEN {c.operation} \cup {c.operation \o "_" \o key : key \in DOMAIN c.context}
                ELSE {c.operation}
             names ==
                IF c.op = "RecordError"
                THEN IF kind = TypeCounter
                     THEN {o \o "_errors_total" : o \in operations} ELSE {}
                ELSE IF kind = TypeCounter
                     THEN {o \o "_total" : o \in operations}
                     ELSE {o \o "_duration" : o \in operations}
         IN (IF name \in names THEN 1 ELSE 0) + ExpectedOn(Tail(prog), kind, name)

\* C28: concurrent RecordError and RecordOperation calls register exactly one
\* primitive for each metric name, and when all calls have returned the value
\* of each counter, and the count of each timer, is the number of calls that
\* recorded on it.
C28_OnePrimitiveAllCounted ==
    /\ \A key \in DOMAIN objs : Len(objs[key]) = 1 /\ key \in DOMAIN metrics
    /\ OpFinished =>
          \A key \in DOMAIN metrics :
             LET m == Deref(objs, metrics[key].metric)
                 n == ExpectedOn(req[1].prog, m.metricType, m.name)
                      + ExpectedOn(req[2].prog, m.metricType, m.name)
             IN IF m.metricType = TypeCounter THEN m.value = U64(n)
                ELSE m.count = U64(n)

\* the two goroutines have made the same RecordError call, the first one
\* twice, and the one error counter holds three
C28_Witness ==
    /\ OpFinished
    /\ req[1].prog = <<ErrorCall, ErrorCall>>
    /\ req[2].prog = <<ErrorCall>>
    /\ Len(objs[KeyOf(TypeCounter, "op_errors_total")]) = 1
    /\ Deref(objs, metrics[KeyOf(TypeCounter, "op_errors_total")].metric).value = U64(3)

\* ====================================================================
\* The sweep goroutine under fair scheduling: the ticker keeps firing while
\* the goroutine runs, and a select with several ready cases picks among
\* them at random, so neither branch of the loop is passed over for ever.
\* ====================================================================
TTLFairSpec ==
    /\ TTLSpec
    /\ WF_vars(cleanupLoopTick)
    /\ WF_vars(cleanupLoopDone)

TTLKeys == {KeyOf(opts.kind, opts.Name) : opts \in TTLInputs}

\* the entry of key has a TTL and its expiry has passed
Expired(key) ==
    /\ key \in DOMAIN metrics
    /\ metrics[key].ttl > 0
    /\ now > metrics[key].expiresAt

\* C29: in a registry with a positive cleanup interval that is not closed,
\* every entry with a positive TTL is removed some time after its expiry has
\* passed, by the sweep goroutine alone.
C29_ExpiredEventuallySwept ==
    \A key \in TTLKeys :
       (Expired(key) /\ cleanupInterval > 0 /\ ~cancelled)
       ~> (key \notin DOMAIN metrics \/ cancelled)

\* an expired counter has been swept from a registry that is not closed: it
\* was allocated, is not registered, and its name is counted no more
C29_Witness ==
    /\ cleanupInterval > 0
    /\ ~cancelled
    /\ loop = "running"
    /\ now >= 2
    /\ KeyOf(TypeCounter, "a") \in DOMAIN objs
    /\ KeyOf(TypeCounter, "a") \notin DOMAIN metrics
    /\ CardOf(cardinality, "a") = 0

\* C30: after Close the sweep goroutine returns, which stops its ticker, and
\* once it has returned it stays so and no sweep of the goroutine takes place.
C30_LoopTerminates ==
    /\ (cancelled /\ loop = "running") ~> (loop = "exited")
    /\ [][/\ loop = "exited" => (loop' = "exited" /\ ~cleanupLoopTick)
          /\ loop' = "exited" => cancelled
          /\ cancelled => cancelled']_vars

\* the goroutine has returned and left an expired entry in the map
C30_Witness ==
    /\ cancelled
    /\ loop = "exited"
    /\ \E key \in TTLKeys : Expired(key)

\* ====================================================================
\* The tag map of a primitive: a goroutine makes a Go map, passes it in the
\* Options of a lookup, and afterwards writes to that map, calls Tags() and
\* writes to the map Tags() returned.  A Go map is a reference: the maps are
\* objects of the heap, under the key "tags", and a primitive's tags field
\* holds the pointer it was given.
\* ====================================================================

\* the map the goroutine made and passed in Options.Tags
PassedTags == <<"tags", 1>>

TagsCall == Call("Tags", 1, F64(0, 0), EmptyTags)
TagWrites ==
    {Call("AssignPassed", 1, F64(0, 0), [k \in {"env"} |-> "prod"]),
     Call("AssignPassed", 1, F64(0, 0), [k \in {"region"} |-> "eu"]),
     Call("DeletePassed", 1, F64(0, 0), [k \in {"env"} |-> ""]),
     Call("AssignReturned", 1, F64(0, 0), [k \in {"env"} |-> "prod"])}

\* a write to the returned map comes after a call of Tags()
TagPrograms ==
    {p \in SeqsUpTo({TagsCall} \cup TagWrites, MaxCalls) :
        \A i \in 1..Len(p) :
           p[i].op = "AssignReturned" => \E j \in 1..(i - 1) : p[j].op = "Tags"}

\* the state after tags := Tags{"env": "dev"} and a lookup with
\* Options{Name: "a", Tags: tags}: newCounter, newGauge and newHistogram store
\* opts.Tags, the pointer, in baseMetric.tags
TagInit ==
    \E kind \in Types : \E p \in TagPrograms :
       LET opts == [kind |-> kind, Name |-> "a", Tags |-> PassedTags,
                    Buckets |-> <<>>, TTL |-> 0]
       IN /\ ValidateTags(BaseTags) = "nil"
          /\ now = 0
          /\ objs = Alloc(Alloc([k \in {} |-> <<>>], "tags", BaseTags),
                          KeyOf(kind, "a"), factory(opts).m)
          /\ metrics = MapSet([k \in {} |-> 0], KeyOf(kind, "a"),
                              newEntry(<<KeyOf(kind, "a"), 1>>, opts))
          /\ cardinality = MapSet([n \in {} |-> 0], "a", 1)
          /\ cleanupInterval = 1
          /\ cancelled = FALSE
          /\ loop = "running"
          /\ pc = [t \in Threads |-> "idle"]
          /\ req = [t \in Threads |->
                      Goroutine(KeyOf(kind, "a"), IF t = Caller THEN p ELSE <<>>)]
          /\ ret = Returned(<<KeyOf(kind, "a"), 1>>)
          /\ om = NoOm
          /\ mu = Unlocked

\* what a call of Tags() hands back: the pointer to a new map
TagsReturned(id) == [err |-> "nil", m |-> NoId, tags |-> id]

\* baseMetric.Tags(): a new map with the pairs of m.tags
baseMetricTags(t) ==
    /\ Calls(t, "Tags")
    /\ objs' = Alloc(objs, "tags", Deref(objs, This(t).tags))
    /\ ret' = TagsReturned(NextId(objs, "tags"))
    /\ Return(t)
    /\ RegistryUntouched

\* the goroutine's tags[k] = v on the map it passed in the Options
assignPassed(t) ==
    /\ Calls(t, "AssignPassed")
    /\ objs' = Store(objs, PassedTags, Assign(Deref(objs, PassedTags), NextCall(t).tags))
    /\ Return(t)
    /\ UNCHANGED ret
    /\ RegistryUntouched

\* the goroutine's delete(tags, k) on the map it passed in the Options
deletePassed(t) ==
    /\ Calls(t, "DeletePassed")
    /\ objs' = Store(objs, PassedTags,
                     [k \in DOMAIN Deref(objs, PassedTags) \ DOMAIN NextCall(t).tags |->
                        Deref(objs, PassedTags)[k]])
    /\ Return(t)
    /\ UNCHANGED ret
    /\ RegistryUntouched

\* the goroutine's m[k] = v on the map the last Tags() returned
assignReturned(t) ==
    /\ Calls(t, "AssignReturned")
    /\ "tags" \in DOMAIN ret
    /\ objs' = Store(objs, ret.tags, Assign(Deref(objs, ret.tags), NextCall(t).tags))
    /\ Return(t)
    /\ UNCHANGED ret
    /\ RegistryUntouched

TagNext ==
    \/ baseMetricTags(Caller)
    \/ assignPassed(Caller)
    \/ deletePassed(Caller)
    \/ assignReturned(Caller)

TagSpec == TagInit /\ [][TagNext]_vars

\* what Tags() of the primitive returns in the heap
TagsOf(heap, id) == Deref(heap, Deref(heap, id).tags)

\* C31: the tags of a registered primitive never change after creation:
\* neither a write to the map Tags() returned nor a write to the map passed
\* in the Options changes what Tags() returns later.
C31_TagsImmutable ==
    [][\A k \in DOMAIN metrics :
          TagsOf(objs', metrics[k].metric) = TagsOf(objs, metrics[k].metric)]_vars

\* what a call adds to the gauge it is made on: int64(value) for Add
GaugeDelta(c) ==
    CASE c.op = "Inc" -> 1
      [] c.op = "Dec" -> -1
      [] c.op = "Add" -> ToInt64(c.arg)
      [] OTHER -> 0

\* the sum of the deltas of the calls that goroutine t has finished on the
\* n-th primitive
RECURSIVE DeltasDone(_, _, _)
DeltasDone(t, n, k) ==
    IF k = 0 THEN 0
    ELSE (IF req[t].prog[k].on = n THEN GaugeDelta(req[t].prog[k]) ELSE 0)
         + DeltasDone(t, n, k - 1)

\* no goroutine calls Set on the n-th primitive
NoSet(n) ==
    \A t \in Threads : \A k \in 1..Len(req[t].prog) :
       ~(req[t].prog[k].op = "Set" /\ req[t].prog[k].on = n)

\* C32: for any interleaving of Inc, Dec and Add calls on one gauge its value
\* is the initial value, 0, plus the sum of the deltas of the calls that have
\* returned; equal numbers of concurrent Inc and Dec leave it at 0.
C32_GaugeSumOfDeltas ==
    (Quiescent /\ Original.metricType = TypeGauge) =>
       /\ NoSet(1) =>
             Original.value = DeltasDone(1, 1, req[1].i) + DeltasDone(2, 1, req[2].i)
       /\ (HasDerived /\ NoSet(2)) =>
             Derived.value = DeltasDone(1, 2, req[1].i) + DeltasDone(2, 2, req[2].i)

\* one goroutine has added -2.5 and incremented, the other has decremented:
\* the gauge is at -2 + 1 - 1
C32_Witness ==
    /\ Finished
    /\ Original.metricType = TypeGauge
    /\ req[1].prog = <<Call("Add", 1, F64(0, -2500), EmptyTags),
                       Call("Inc", 1, F64(0, 0), EmptyTags)>>
    /\ req[2].prog = <<Call("Dec", 1, F64(0, 0), EmptyTags)>>
    /\ Original.value = -2

\* ====================================================================
\* ValidateTags(tags, config) as the loop it is: the test of len(tags), then
\* the range over the map, which takes the keys in an order of its own and
\* returns at the first key that fails one of the four tests.
\* ====================================================================

\* the policy of TestRegistryTagValidation with the denylist of TestValidateTags
TestConfig ==
    [MaxKeys |-> MaxKeys, MaxKeyLength |-> MaxKeyLength,
     MaxValueLength |-> MaxValueLength, MaxCardinality |-> MaxCardinality,
     DisallowedKeys |-> DisallowedKeys]

ValidateConfigs == {TestConfig, DefaultConfig}
ValidateKeys == {"", "k", "env", "secret", "very_long_key"}
ValidateValues == {"v", "vvvvvvvvvvvvvvvvvvvvv"}
ValidateInputs ==
    UNION {[ks -> ValidateValues] :
              ks \in {x \in SUBSET ValidateKeys : Cardinality(x) <= 3}}

\* the locals of a goroutine inside ValidateTags: its arguments and the keys
\* the range has still to visit
Validating(tags, config) == [tags |-> tags, config |-> config, left |-> DOMAIN tags]

ValidateInit ==
    \E tags \in ValidateInputs : \E config \in ValidateConfigs :
       /\ metrics = [k \in {} |-> 0]
       /\ cardinality = [n \in {} |-> 0]
       /\ objs = [k \in {} |-> <<>>]
       /\ now = 0
       /\ cleanupInterval = 1
       /\ cancelled = FALSE
       /\ loop = "running"
       /\ pc = [t \in Threads |-> "idle"]
       /\ req = [t \in Threads |-> Validating(tags, config)]
       /\ ret = Panicked("none")
       /\ om = NoOm
       /\ mu = Unlocked

\* what ValidateTags returns: the error, "nil" for none
Validated(e) == [err |-> e, m |-> NoId]

\* if len(tags) > config.MaxKeys { return ... }
validateLen(t) ==
    /\ pc[t] = "idle"
    /\ IF Cardinality(DOMAIN req[t].tags) > req[t].config.MaxKeys
       THEN /\ ret' = Validated("TooManyKeys")
            /\ pc' = [pc EXCEPT ![t] = "returned"]
       ELSE /\ pc' = [pc EXCEPT ![t] = "range"]
            /\ UNCHANGED ret
    /\ UNCHANGED <<req, objs>>
    /\ RegistryUntouched

\* the body of the loop without the test for the empty key
KeyError_NoEmptyTest(key, value, config) ==
    IF Len(key) > config.MaxKeyLength THEN "KeyTooLong"
    ELSE IF Len(value) > config.MaxValueLength THEN "ValueTooLong"
    ELSE IF key \in config.DisallowedKeys THEN "DisallowedKey"
    ELSE "nil"

\* the body of the loop for one key and its value
KeyError(key, value, config) ==
    IF Len(key) > config.MaxKeyLength THEN "KeyTooLong"
    ELSE IF Len(value) > config.MaxValueLength THEN "ValueTooLong"
    ELSE IF key \in config.DisallowedKeys THEN "DisallowedKey"
    ELSE IF key = "" THEN "EmptyKey"
    ELSE "nil"

\* for key, value := range tags { ... } and the return nil after it
validateRange(t) ==
    /\ pc[t] = "range"
    /\ IF req[t].left = {}
       THEN /\ ret' = Validated("nil")
            /\ pc' = [pc EXCEPT ![t] = "returned"]
            /\ UNCHANGED req
       ELSE \E key \in req[t].left :
               IF KeyError(key, req[t].tags[key], req[t].config) # "nil"
               THEN /\ ret' = Validated(KeyError(key, req[t].tags[key], req[t].config))
                    /\ pc' = [pc EXCEPT ![t] = "returned"]
                    /\ UNCHANGED req
               ELSE /\ req' = [req EXCEPT ![t].left = @ \ {key}]
                    /\ UNCHANGED <<pc, ret>>
    /\ UNCHANGED objs
    /\ RegistryUntouched

ValidateNext ==
    \/ validateLen(Caller)
    \/ validateRange(Caller)

ValidateSpec == ValidateInit /\ [][ValidateNext]_vars

\* C33: ValidateTags fails exactly when the tag set has more than MaxKeys
\* keys, or a key longer than MaxKeyLength, or a value longer than
\* MaxValueLength, or the empty key, or a key of the denylist; the error it
\* returns is of a kind whose condition holds; otherwise it returns nil.
C33_ValidateExact ==
    pc[Caller] = "returned" =>
       LET tags == req[Caller].tags
           config == req[Caller].config
           tooMany == Cardinality(DOMAIN tags) > config.MaxKeys
           keyLong == \E k \in DOMAIN tags : Len(k) > config.MaxKeyLength
           valueLong == \E k \in DOMAIN tags : Len(tags[k]) > config.MaxValueLength
           emptyKey == "" \in DOMAIN tags
           denied == DOMAIN tags \cap config.DisallowedKeys # {}
       IN /\ ret.err # "nil" <=> (tooMany \/ keyLong \/ valueLong \/ emptyKey \/ denied)
          /\ ret.err = "TooManyKeys" <=> tooMany
          /\ ret.err = "KeyTooLong" => keyLong
          /\ ret.err = "ValueTooLong" => valueLong
          /\ ret.err = "EmptyKey" => emptyKey
          /\ ret.err = "DisallowedKey" => denied
          /\ ret.err = "nil" <=> ValidateTagsWith(tags, config) = "nil"

\* the range has passed over a valid key before it came to the empty key, the
\* only fault of the tag set
C33_Witness ==
    /\ pc[Caller] = "returned"
    /\ ret.err = "EmptyKey"
    /\ req[Caller].config = TestConfig
    /\ DOMAIN req[Caller].tags = {"", "k"}
    /\ req[Caller].left = {""}
    /\ \A k \in DOMAIN req[Caller].tags : req[Caller].tags[k] = "v"

\* ====================================================================
\* A metric that outlives its TTL (TestManualCleanup): the registry holds a
\* counter with a TTL; one goroutine has it and increments it, another looks
\* metrics up, the clock advances, and the entries are swept by hand or, if
\* the registry has a cleanup interval, by its goroutine.
\* ====================================================================

ExpiringOptions ==
    [kind |-> TypeCounter, Name |-> "a", Tags |-> EmptyTags, Buckets |-> <<>>,
     TTL |-> 1]

\* the later lookups: the counter again, with and without a TTL and tags of
\* its own, and a gauge of the same name
ExpiryInputs ==
    [kind : {TypeCounter}, Name : {"a"}, Tags : {EmptyTags, BaseTags},
     Buckets : {<<>>}, TTL : {0, 2}]
    \cup [kind : {TypeGauge}, Name : {"a"}, Tags : {EmptyTags}, Buckets : {<<>>},
          TTL : {1}]

ExpiryInit ==
    /\ now = 0
    /\ objs = Alloc([k \in {} |-> <<>>], KeyOf(TypeCounter, "a"),
                    factory(ExpiringOptions).m)
    /\ metrics = MapSet([k \in {} |-> 0], KeyOf(TypeCounter, "a"),
                        newEntry(<<KeyOf(TypeCounter, "a"), 1>>, ExpiringOptions))
    /\ cardinality = MapSet([n \in {} |-> 0], "a", 1)
    /\ cleanupInterval \in {0, 1}
    /\ cancelled = FALSE
    /\ loop = IF cleanupInterval > 0 THEN "running" ELSE "none"
    /\ pc = [t \in Threads |-> "idle"]
    /\ req = [t \in Threads |->
                IF t = Caller THEN Goroutine(KeyOf(TypeCounter, "a"), IncProgram)
                ELSE NoReq]
    /\ ret = Returned(<<KeyOf(TypeCounter, "a"), 1>>)
    /\ om = NoOm
    /\ mu = Unlocked

ExpiryNext ==
    \/ \E opts \in ExpiryInputs : lookupFast(Looker, opts)
    \/ lookupSlow(Looker)
    \/ counterInc(Caller)
    \/ ManualCleanup
    \/ cleanupLoopTick
    \/ Tick

ExpirySpec == ExpiryInit /\ [][ExpiryNext]_vars

\* C34: a lookup of an entry whose expiry has passed and that no sweep has
\* removed returns the stored instance, with the value it has accumulated,
\* and leaves the entry in the map; an entry leaves the map only in a pass of
\* cleanupExpired, and only if its expiry has passed.
C34_ExpiredStillServed ==
    [][/\ \A opts \in ExpiryInputs :
             (LookupReturn(Looker, opts) /\ Expired(KeyOf(opts.kind, opts.Name))) =>
                /\ ret' = Returned(metrics[KeyOf(opts.kind, opts.Name)].metric)
                /\ Deref(objs', ret'.m) = Deref(objs, ret'.m)
                /\ metrics' = metrics
       /\ \A key \in DOMAIN metrics :
             key \notin DOMAIN metrics' => (SweepStep /\ Expired(key))]_vars

\* the gauge was made at time 2, so the lookup that returned the counter
\* after it ran when the counter's expiry, time 1, had passed; the counter
\* is the instance made at the start and holds its increments
C34_Witness ==
    /\ KeyOf(TypeGauge, "a") \in DOMAIN metrics
    /\ metrics[KeyOf(TypeGauge, "a")].expiresAt = 3
    /\ Expired(KeyOf(TypeCounter, "a"))
    /\ metrics[KeyOf(TypeCounter, "a")].metric = <<KeyOf(TypeCounter, "a"), 1>>
    /\ ret = Returned(<<KeyOf(TypeCounter, "a"), 1>>)
    /\ Deref(objs, ret.m).value = U64(2)

\* ====================================================================
\* The registry under racing lookups: it holds a counter with a TTL; two
\* goroutines look up that counter with other tags and another TTL, and a
\* gauge and a timer of the same name, while metrics are unregistered and
\* swept and the clock advances.
\* ====================================================================

\* the later lookups: none of the counter has the tags or the TTL it was
\* made with
CapInputs ==
    [kind : {TypeCounter}, Name : {"a"}, Tags : {BaseTags}, Buckets : {<<>>},
     TTL : {0, 2}]
    \cup [kind : {TypeGauge, TypeTimer}, Name : {"a"}, Tags : {EmptyTags},
          Buckets : {<<>>}, TTL : {1}]

CapInit ==
    /\ now = 0
    /\ objs = Alloc([k \in {} |-> <<>>], KeyOf(TypeCounter, "a"),
                    factory(ExpiringOptions).m)
    /\ metrics = MapSet([k \in {} |-> 0], KeyOf(TypeCounter, "a"),
                        newEntry(<<KeyOf(TypeCounter, "a"), 1>>, ExpiringOptions))
    /\ cardinality = MapSet([n \in {} |-> 0], "a", 1)
    /\ cleanupInterval = 1
    /\ cancelled = FALSE
    /\ loop = "running"
    /\ pc = [t \in Threads |-> "idle"]
    /\ req = [t \in Threads |-> NoReq]
    /\ ret = Returned(<<KeyOf(TypeCounter, "a"), 1>>)
    /\ om = NoOm
    /\ mu = Unlocked

CapNext ==
    \/ \E t \in Threads : \E opts \in CapInputs : lookupFast(t, opts)
    \/ \E t \in Threads : lookupSlow(t)
    \/ \E name \in Names : Unregister(name)
    \/ ManualCleanup
    \/ cleanupLoopTick
    \/ Tick

CapSpec == CapInit /\ [][CapNext]_vars

\* C35: a lookup of an identity the registry holds returns the stored
\* instance and changes nothing: the map, with the entry's instance, TTL and
\* expiry, the primitives, with their tags, and the cardinality stay as they
\* were, whatever tags and TTL the call carries.
C35_ExistingUntouched ==
    [][\A t \in Threads : \A opts \in CapInputs :
          (LookupReturn(t, opts) /\ KeyOf(opts.kind, opts.Name) \in DOMAIN metrics) =>
             /\ ret' = Returned(metrics[KeyOf(opts.kind, opts.Name)].metric)
             /\ metrics' = metrics
             /\ objs' = objs
             /\ cardinality' = cardinality]_vars

\* the gauge was made at time 1, so the lookup that returned the counter
\* after it found the counter registered; every lookup of the counter
\* carries other tags and another TTL than the entry has, and the entry and
\* the counter are as they were made
C35_Witness ==
    /\ KeyOf(TypeGauge, "a") \in DOMAIN metrics
    /\ metrics[KeyOf(TypeGauge, "a")].expiresAt = 2
    /\ ret = Returned(<<KeyOf(TypeCounter, "a"), 1>>)
    /\ KeyOf(TypeCounter, "a") \in DOMAIN metrics
    /\ metrics[KeyOf(TypeCounter, "a")] =
          [metric |-> <<KeyOf(TypeCounter, "a"), 1>>, ttl |-> 1, expiresAt |-> 1]
    /\ Deref(objs, ret.m).tags = EmptyTags
    /\ \A opts \in CapInputs :
          opts.kind = TypeCounter => (opts.TTL # 1 /\ opts.Tags # EmptyTags)

\* C38: the identity map never holds more than MaxCardinality entries of one
\* name, and never more than the name's cardinality counter says.
C38_EntriesWithinCap ==
    \A name \in Names :
       /\ Cardinality(KeysOfName(metrics, name)) <= MaxCardinality
       /\ Cardinality(KeysOfName(metrics, name)) <= CardOf(cardinality, name)

\* a lookup of a third identity of the name was refused while the map held
\* MaxCardinality entries of it
C38_Witness ==
    /\ ret = Panicked("CardinalityExceeded")
    /\ Cardinality(KeysOfName(metrics, "a")) = MaxCardinality

\* ====================================================================
\* The operational layer over a registry its owner also uses directly:
\* New(registry) keeps the registry it is given, so the goroutines of the
\* operational section run while the owner unregisters the names the layer
\* has registered.  The layer registers without a TTL, so no sweep removes
\* an entry of it.
\* ====================================================================

\* the names the layer registers for the operation "op"
OpNames == {"op_errors_total", "op_duration", "op_total"}

StaleNext ==
    \/ OpNext
    \/ \E name \in OpNames : Unregister(name)

StaleSpec == OpInit /\ [][StaleNext]_vars

Caches == {"errorCounters", "operationTimers", "operationCounters"}

\* C36: every handle in a cache of the operational layer is the instance the
\* registry holds, so that what is recorded through it is seen by Each.
C36_CachedIsRegistered ==
    \A cache \in Caches : \A key \in DOMAIN om[cache] :
       \E k \in DOMAIN metrics : metrics[k].metric = om[cache][key]

\* C40: in a registry made with a cleanup interval of 0 the sweep goroutine
\* is never started, and no entry is ever removed because its TTL has run
\* out: no step is a pass of cleanupExpired that removes an entry.
C40_NoCleanupNeverExpires ==
    /\ [](cleanupInterval = 0 => loop = "none")
    /\ [][cleanupInterval = 0 => ~SweepStep]_vars

\* ====================================================================
\* Snapshot next to Observe: one goroutine observes values on a histogram
\* while another takes snapshots of it.  Every atomic load of Snapshot is a
\* step of its own, so any number of steps of Observe may fall between two.
\* ====================================================================

SnapshotCall == Call("Snapshot", 1, F64(0, 0), EmptyTags)
SnapshotProgram == [k \in 1..MaxCalls |-> SnapshotCall]
ObservePrograms == SeqsUpTo(HistogramCalls2, MaxCalls)

\* a snapshot that loads the count before the buckets
SnapshotLoads_CountFirst(n) ==
    <<<<"count", 0>>>> \o [k \in 1..n |-> <<"buckets", k>>]
    \o <<<<"sum", 0>>, <<"min", 0>>, <<"max", 0>>>>

\* the atomic loads of Snapshot on a histogram of n buckets, in the order
\* the code makes them: the loop over the buckets, then the fields of the
\* composite literal from top to bottom
SnapshotLoads(n) ==
    [k \in 1..n |-> <<"buckets", k>>]
    \o <<<<"count", 0>>, <<"sum", 0>>, <<"min", 0>>, <<"max", 0>>>>

\* HistogramSnapshot{} with buckets := make([]uint64, n)
HistogramSnapshot(n) ==
    [Count |-> U64(0), Sum |-> U64(0), Min |-> U64(0), Max |-> U64(0),
     Buckets |-> Zeros(n)]

\* the locals of a goroutine that takes snapshots: the snapshot it is
\* filling and the number of loads it has made
Snapshotter(key, p) == Goroutine(key, p) @@ [snap |-> HistogramSnapshot(0), j |-> 0]

SnapInit ==
    \E p \in ObservePrograms :
       /\ now = 0
       /\ objs = Alloc([k \in {} |-> <<>>], KeyOf(TypeHistogram, "a"),
                       factory(PrimOptions(TypeHistogram, HistogramBuckets)).m)
       /\ metrics = MapSet([k \in {} |-> 0], KeyOf(TypeHistogram, "a"),
                           newEntry(<<KeyOf(TypeHistogram, "a"), 1>>,
                                    PrimOptions(TypeHistogram, HistogramBuckets)))
       /\ cardinality = MapSet([n \in {} |-> 0], "a", 1)
       /\ cleanupInterval = 1
       /\ cancelled = FALSE
       /\ loop = "running"
       /\ pc = [t \in Threads |-> "idle"]
       /\ req = [t \in Threads |->
                   IF t = Caller THEN Goroutine(KeyOf(TypeHistogram, "a"), p)
                   ELSE Snapshotter(KeyOf(TypeHistogram, "a"), SnapshotProgram)]
       /\ ret = Returned(<<KeyOf(TypeHistogram, "a"), 1>>)
       /\ om = NoOm
       /\ mu = Unlocked

\* what Snapshot returns
Snapshotted(id, snap) == [err |-> "nil", m |-> id, snapshot |-> snap]

\* buckets := make([]uint64, len(h.buckets))
snapshotMake(t) ==
    /\ Calls(t, "Snapshot") /\ Is(t, TypeHistogram)
    /\ req' = [req EXCEPT ![t].snap = HistogramSnapshot(Len(This(t).buckets)),
                          ![t].j = 0]
    /\ pc' = [pc EXCEPT ![t] = "load"]
    /\ UNCHANGED <<objs, ret>>
    /\ RegistryUntouched

\* the value one atomic.LoadUint64 of Snapshot puts into the snapshot
Loaded(snap, h, ld) ==
    CASE ld[1] = "buckets" -> [snap EXCEPT !.Buckets[ld[2]] = h.buckets[ld[2]]]
      [] ld[1] = "count" -> [snap EXCEPT !.Count = h.count]
      [] ld[1] = "sum" -> [snap EXCEPT !.Sum = h.sum]
      [] ld[1] = "min" -> [snap EXCEPT !.Min = h.min]
      [] ld[1] = "max" -> [snap EXCEPT !.Max = h.max]

\* one atomic.LoadUint64 of Snapshot
snapshotLoad(t) ==
    /\ InObserve(t, "load")
    /\ req[t].j < Len(SnapshotLoads(Len(This(t).buckets)))
    /\ req' = [req EXCEPT
                 ![t].snap = Loaded(@, This(t),
                                    SnapshotLoads(Len(This(t).buckets))[req[t].j + 1]),
                 ![t].j = @ + 1]
    /\ UNCHANGED <<pc, objs, ret>>
    /\ RegistryUntouched

\* return HistogramSnapshot{...}
snapshotReturn(t) ==
    /\ InObserve(t, "load")
    /\ req[t].j = Len(SnapshotLoads(Len(This(t).buckets)))
    /\ ret' = Snapshotted(Self(t), req[t].snap)
    /\ pc' = [pc EXCEPT ![t] = "idle"]
    /\ req' = [req EXCEPT ![t].i = @ + 1, ![t].j = 0]
    /\ UNCHANGED objs
    /\ RegistryUntouched

SnapNext ==
    \/ ObserveCount(Caller)
    \/ ObserveSum(Caller)
    \/ ObserveBucket(Caller)
    \/ updateMinLoad(Caller)
    \/ updateMinCAS(Caller)
    \/ updateMaxLoad(Caller)
    \/ updateMaxCAS(Caller)
    \/ snapshotMake(Looker)
    \/ snapshotLoad(Looker)
    \/ snapshotReturn(Looker)

SnapSpec == SnapInit /\ [][SnapNext]_vars

\* C39: in every snapshot Snapshot returns, also one taken while Observe
\* runs, the bucket counts add up to no more than the count.
C39_SnapshotBucketsWithinCount ==
    "snapshot" \in DOMAIN ret =>
       ~U64Less(ret.snapshot.Count, SumU64(ret.snapshot.Buckets))

\* a snapshot taken across an Observe: it has the count of two observations
\* and the bucket of one, while the goroutine that observes is between the
\* increment of the count and that of the bucket
C39_Witness ==
    /\ "snapshot" \in DOMAIN ret
    /\ ret.snapshot.Count = U64(2)
    /\ SumU64(ret.snapshot.Buckets) = U64(1)
    /\ pc[Caller] \in {"sum", "bucket"}

\* ====================================================================
\* The registry with its mutex.  In the sections above the part of a call
\* that runs under r.mu is one step; here taking and releasing r.mu are
\* steps of their own, so that a goroutine can be blocked.  sync.RWMutex:
\* Lock first claims the mutex against other writers and from then on new
\* readers block; it returns when the readers that hold the mutex have left;
\* Unlock lets in the readers that were blocked.
\* ====================================================================

\* the goroutine of cleanupLoop, next to the goroutines of Threads
Sweeper == 0

\* r.mu.RLock() by goroutine g: it holds the mutex at once unless a writer
\* has claimed it
RLock(m, g) ==
    IF m.w = {} THEN [m EXCEPT !.readers = @ \cup {g}]
    ELSE [m EXCEPT !.rwait = @ \cup {g}]
RUnlock(m, g) == [m EXCEPT !.readers = @ \ {g}]
\* r.mu.Lock(): the claim, possible when no writer has one, and the wait for
\* the readers to leave
CanLock(m) == m.w = {}
Lock(m, g) == [m EXCEPT !.w = {g}]
Holds(m, g) == m.w = {g} /\ m.readers = {}
Unlock(m, g) == [readers |-> m.rwait, rwait |-> {}, w |-> {}]

\* the lookups: a counter, a histogram of the same name with boundaries out
\* of order, and the counter with a tag key that is too long.  The TTL of
\* the counter is negative, so the first sweep removes it, whatever the
\* clock says.  Unregister leaves the cardinality of the name as it is, so
\* the name is full, where MaxCardinality is 2, once the counter has been
\* made and unregistered twice.
LockInputs ==
    [kind : {TypeCounter}, Name : {"a"}, Tags : FewTagInputs, Buckets : {<<>>},
     TTL : {-1}]
    \cup [kind : {TypeHistogram}, Name : {"a"}, Tags : {EmptyTags},
          Buckets : {<<5000, 1000>>}, TTL : {0}]

LockInit ==
    /\ metrics = [k \in {} |-> 0]
    /\ cardinality = [n \in {} |-> 0]
    /\ objs = [k \in {} |-> <<>>]
    /\ now = 0
    /\ cleanupInterval = 1
    /\ cancelled = FALSE
    /\ loop = "running"
    /\ pc = [t \in Threads |-> "idle"]
    /\ req = [t \in Threads |-> NoReq]
    /\ ret = Panicked("none")
    /\ om = NoOm
    /\ mu = Unlocked

InLookup == {t \in Threads : pc[t] \in {"l_read", "l_lock", "l_write"}}

\* lookup up to r.mu.RLock(): the panic of ValidateTags comes before it
lookupRLock(t, opts) ==
    /\ pc[t] = "idle"
    /\ HeapSize(objs) + Cardinality(InLookup) < MaxInstances
    /\ IF ValidateTags(opts.Tags) # "nil"
       THEN /\ ret' = Panicked("InvalidTags")
            /\ UNCHANGED <<pc, req, mu>>
       ELSE /\ mu' = RLock(mu, t)
            /\ pc' = [pc EXCEPT ![t] = "l_read"]
            /\ req' = [req EXCEPT ![t] = opts]
            /\ UNCHANGED ret
    /\ UNCHANGED <<om, metrics, cardinality, objs, now, cleanupInterval, cancelled,
                   loop>>

\* the probe under the read lock and r.mu.RUnlock()
lookupRUnlock(t) ==
    /\ pc[t] = "l_read"
    /\ t \in mu.readers
    /\ mu' = RUnlock(mu, t)
    /\ IF Probe(metrics, ReqKey(t))
       THEN /\ ret' = Returned(metrics[ReqKey(t)].metric)
            /\ pc' = [pc EXCEPT ![t] = "idle"]
            /\ req' = [req EXCEPT ![t] = NoReq]
       ELSE /\ pc' = [pc EXCEPT ![t] = "l_lock"]
            /\ UNCHANGED <<req, ret>>
    /\ UNCHANGED <<om, metrics, cardinality, objs, now, cleanupInterval, cancelled,
                   loop>>

\* r.mu.Lock() of lookup
lookupLock(t) ==
    /\ pc[t] = "l_lock"
    /\ CanLock(mu)
    /\ mu' = Lock(mu, t)
    /\ pc' = [pc EXCEPT ![t] = "l_write"]
    /\ UNCHANGED <<om, metrics, cardinality, objs, now, cleanupInterval, cancelled,
                   loop, req, ret>>

\* the write-locked part of lookup with r.mu.Unlock() as its last statement
\* instead of a deferred one: a panic leaves the mutex locked
lookupLocked_NoDefer(t) ==
    /\ pc[t] = "l_write"
    /\ Holds(mu, t)
    /\ LET opts == req[t]
           key == KeyOf(opts.kind, opts.Name)
       IN IF Recheck(metrics, key)
          THEN /\ ret' = Returned(metrics[key].metric)
               /\ mu' = Unlock(mu, t)
               /\ UNCHANGED <<metrics, cardinality, objs>>
          ELSE IF CardLimitReached(cardinality, opts.Name)
          THEN /\ ret' = Panicked("CardinalityExceeded")
               /\ UNCHANGED <<metrics, cardinality, objs, mu>>
          ELSE IF factory(opts).err # "nil"
          THEN /\ ret' = Panicked(factory(opts).err)
               /\ UNCHANGED <<metrics, cardinality, objs, mu>>
          ELSE /\ objs' = Alloc(objs, key, factory(opts).m)
               /\ metrics' = MapSet(metrics, key, newEntry(NextId(objs, key), opts))
               /\ cardinality' = MapSet(cardinality, opts.Name,
                                        CardOf(cardinality, opts.Name) + 1)
               /\ ret' = Returned(NextId(objs, key))
               /\ mu' = Unlock(mu, t)
    /\ pc' = [pc EXCEPT ![t] = "idle"]
    /\ req' = [req EXCEPT ![t] = NoReq]
    /\ UNCHANGED <<om, now, cleanupInterval, cancelled, loop>>

\* the write-locked part of lookup; the deferred r.mu.Unlock() runs on every
\* way out, the panics included
lookupLocked(t) ==
    /\ pc[t] = "l_write"
    /\ Holds(mu, t)
    /\ mu' = Unlock(mu, t)
    /\ LET opts == req[t]
           key == KeyOf(opts.kind, opts.Name)
       IN IF Recheck(metrics, key)
          THEN /\ ret' = Returned(metrics[key].metric)
               /\ UNCHANGED <<metrics, cardinality, objs>>
          ELSE IF CardLimitReached(cardinality, opts.Name)
          THEN /\ ret' = Panicked("CardinalityExceeded")
               /\ UNCHANGED <<metrics, cardinality, objs>>
          ELSE IF factory(opts).err # "nil"
          THEN /\ ret' = Panicked(factory(opts).err)
               /\ UNCHANGED <<metrics, cardinality, objs>>
          ELSE /\ objs' = Alloc(objs, key, factory(opts).m)
               /\ metrics' = MapSet(metrics, key, newEntry(NextId(objs, key), opts))
               /\ cardinality' = MapSet(cardinality, opts.Name,
                                        CardOf(cardinality, opts.Name) + 1)
               /\ ret' = Returned(NextId(objs, key))
    /\ pc' = [pc EXCEPT ![t] = "idle"]
    /\ req' = [req EXCEPT ![t] = NoReq]
    /\ UNCHANGED <<om, now, cleanupInterval, cancelled, loop>>

\* a call of Unregister(name) or ManualCleanup() arrives at its r.mu.Lock()
callLocking(t, at, name) ==
    /\ pc[t] = "idle"
    /\ pc' = [pc EXCEPT ![t] = at]
    /\ req' = [req EXCEPT ![t] = [NoReq EXCEPT !.Name = name]]
    /\ UNCHANGED <<om, metrics, cardinality, objs, now, mu, cleanupInterval,
                   cancelled, loop, ret>>

\* r.mu.Lock() of Unregister or of cleanupExpired
claimLock(t, at, to) ==
    /\ pc[t] = at
    /\ CanLock(mu)
    /\ mu' = Lock(mu, t)
    /\ pc' = [pc EXCEPT ![t] = to]
    /\ UNCHANGED <<om, metrics, cardinality, objs, now, cleanupInterval, cancelled,
                   loop, req, ret>>

unregisterCall(t, name) == callLocking(t, "u_lock", name)
unregisterLock(t) == claimLock(t, "u_lock", "u_write")

\* the loop of Unregister and the deferred r.mu.Unlock()
unregisterLocked(t) ==
    /\ pc[t] = "u_write"
    /\ Holds(mu, t)
    /\ mu' = Unlock(mu, t)
    /\ metrics' = MapDelete(metrics, UnregisterKeys(metrics, req[t].Name))
    /\ pc' = [pc EXCEPT ![t] = "idle"]
    /\ req' = [req EXCEPT ![t] = NoReq]
    /\ UNCHANGED <<om, cardinality, objs, now, cleanupInterval, cancelled, loop,
                   ret>>

\* Each up to r.mu.RLock()
eachRLock(t) ==
    /\ pc[t] = "idle"
    /\ mu' = RLock(mu, t)
    /\ pc' = [pc EXCEPT ![t] = "e_read"]
    /\ UNCHANGED <<om, metrics, cardinality, objs, now, cleanupInterval, cancelled,
                   loop, req, ret>>

\* the loop of Each, whose fn does not call the registry, and the deferred
\* r.mu.RUnlock()
eachLocked(t) ==
    /\ pc[t] = "e_read"
    /\ t \in mu.readers
    /\ mu' = RUnlock(mu, t)
    /\ ret' = Visited({metrics[k].metric : k \in DOMAIN metrics},
                      Cardinality(DOMAIN metrics))
    /\ pc' = [pc EXCEPT ![t] = "idle"]
    /\ UNCHANGED <<om, metrics, cardinality, objs, now, cleanupInterval, cancelled,
                   loop, req>>

manualCall(t) == callLocking(t, "m_lock", "")
manualLock(t) == claimLock(t, "m_lock", "m_write")

\* ManualCleanup: the body of cleanupExpired and the deferred r.mu.Unlock()
manualLocked(t) ==
    /\ pc[t] = "m_write"
    /\ Holds(mu, t)
    /\ mu' = Unlock(mu, t)
    /\ cleanupExpired
    /\ pc' = [pc EXCEPT ![t] = "idle"]
    /\ req' = [req EXCEPT ![t] = NoReq]
    /\ UNCHANGED <<om, objs, now, cleanupInterval, cancelled, loop, ret>>

\* cleanupLoop: the ticker.C branch of the select, up to the r.mu.Lock() of
\* cleanupExpired
sweepCall ==
    /\ loop = "running"
    /\ loop' = "c_lock"
    /\ UNCHANGED <<om, metrics, cardinality, objs, now, mu, cleanupInterval,
                   cancelled, pc, req, ret>>

\* r.mu.Lock() of cleanupExpired in the goroutine of cleanupLoop
sweepLock ==
    /\ loop = "c_lock"
    /\ CanLock(mu)
    /\ mu' = Lock(mu, Sweeper)
    /\ loop' = "c_write"
    /\ UNCHANGED <<om, metrics, cardinality, objs, now, cleanupInterval, cancelled,
                   pc, req, ret>>

\* the body of cleanupExpired, the deferred r.mu.Unlock(), and back to the
\* select
sweepLocked ==
    /\ loop = "c_write"
    /\ Holds(mu, Sweeper)
    /\ mu' = Unlock(mu, Sweeper)
    /\ cleanupExpired
    /\ loop' = "running"
    /\ UNCHANGED <<om, objs, now, cleanupInterval, cancelled, pc, req, ret>>

\* both goroutines look metrics up; one of them also calls Each, the other
\* Unregister and ManualCleanup; the sweep goroutine runs beside them and
\* the registry may be closed
LockNext ==
    \/ \E t \in Threads : \E opts \in LockInputs : lookupRLock(t, opts)
    \/ \E t \in Threads : lookupRUnlock(t)
    \/ \E t \in Threads : lookupLock(t)
    \/ \E t \in Threads : lookupLocked(t)
    \/ unregisterCall(Looker, "a")
    \/ unregisterLock(Looker)
    \/ unregisterLocked(Looker)
    \/ eachRLock(Caller)
    \/ eachLocked(Caller)
    \/ manualCall(Looker)
    \/ manualLock(Looker)
    \/ manualLocked(Looker)
    \/ sweepCall
    \/ sweepLock
    \/ sweepLocked
    \/ cleanupLoopDone
    \/ Close

LockSpec == LockInit /\ [][LockNext]_vars

\* the steps goroutine t makes once it holds the mutex
Proceeds(t) ==
    lookupRUnlock(t) \/ lookupLocked(t) \/ unregisterLocked(t) \/ eachLocked(t)
    \/ manualLocked(t)
\* the steps in which goroutine t claims the mutex for writing
Claims(t) == lookupLock(t) \/ unregisterLock(t) \/ manualLock(t)

\* the scheduler runs every goroutine that can run, and a goroutine blocked
\* in Lock is not passed over for ever: sync.Mutex hands the mutex to a
\* waiter that has starved
LockFairSpec ==
    /\ LockSpec
    /\ \A t \in Threads : WF_vars(Proceeds(t)) /\ SF_vars(Claims(t))
    /\ WF_vars(sweepLocked)
    /\ SF_vars(sweepLock)

\* C37: every call of lookup, Unregister, Each and ManualCleanup returns, and
\* every pass of the sweep goroutine ends, whatever the other goroutines do
\* and whichever lookups have panicked before: no goroutine stays blocked on
\* the mutex.
C37_EveryCallReturns ==
    /\ \A t \in Threads : (pc[t] # "idle") ~> (pc[t] = "idle")
    /\ (loop \in {"c_lock", "c_write"}) ~> (loop = "running")

\* the last call to return was a lookup that panicked under the write lock;
\* another call has the write lock now, a call of Each is blocked in RLock
\* and the sweep goroutine in Lock
C37_Witness ==
    /\ ret = Panicked("CardinalityExceeded")
    /\ pc[Looker] \in {"u_write", "m_write", "l_write"}
    /\ Holds(mu, Looker)
    /\ pc[Caller] = "e_read"
    /\ Caller \in mu.rwait
    /\ loop = "c_lock"

====
